---- MODULE Spec2Model ----
(***************************************************************************)
(* Model of the multicloud-k8s control plane (apps/api): the credential    *)
(* vault (services/credentials.ts, services/encryption.ts), the            *)
(* provisioning orchestrator (services/provisioner.ts) and the cluster     *)
(* routes of the API server that drive it.                                 *)
(*                                                                         *)
(* Every `await` of the TypeScript code is a suspension point, so each     *)
(* handler is cut into one action per awaited store / provider call; the   *)
(* synchronous code between two awaits is part of one action.              *)
(***************************************************************************)
EXTENDS Integers, FiniteSets, Sequences, TLC

(***************************************************************************)
(* Bounds of the model.                                                    *)
(***************************************************************************)
MaxClusters == 1   \* cluster rows ever inserted (ids 1..MaxClusters)
MaxSaves    == 2   \* saveCredentials calls (possibly concurrent)
MaxSecret   == 2   \* distinct secret payloads a caller may submit
MaxIV       == 1   \* initialization vectors are drawn from 0..MaxIV
MaxEnv      == 1   \* providers that may have operator-injected credentials
Modulus     == 7   \* size of the cipher's block space
MaxNodes    == 2   \* nodeCount of a deploy request is drawn from 1..MaxNodes
MaxDeploys  == 2   \* deploy calls made on the adapters directly
MaxCipherIV == 3   \* the cipher checked on its own draws its IVs from 0..MaxCipherIV
MaxLogins   == 2   \* loginWithCloudCredentials calls (possibly concurrent)
MaxProbes   == 3   \* validateOnPrem calls, one after the other

(***************************************************************************)
(* Program constants.                                                      *)
(***************************************************************************)
SECRET_KEY     == 3          \* encryption.ts: the process-wide cipher key
DEFAULT_ORG_ID == "org0"     \* credentials.ts: the reserved default tenant

Providers      == {"aws", "azure", "gcp", "onprem"}
ProviderInputs == Providers \cup {"bogus"}   \* route params are free strings
Orgs           == {DEFAULT_ORG_ID, "orgA"}   \* rows of table organizations
Undefined      == "undefined"
OrgInputs      == Orgs \cup {Undefined}      \* x-organization-id may be absent
NameInputs     == {Undefined, "name"}        \* body.connectionName may be absent
Secrets        == 1..MaxSecret
IVs            == 0..MaxIV
ClusterIds     == 1..MaxClusters
SaveIds        == 1..MaxSaves
NodeCounts     == 1..MaxNodes
LoginIds       == 1..MaxLogins

VARIABLES
    env,          \* process.env: providers whose required variables are set
    dbUp,         \* whether pool.query currently resolves (TRUE) or rejects
    credentials,  \* table credentials: a set of rows
    savePc,       \* saveCredentials call s: its position
    saveReq,      \* saveCredentials call s: its locals (provider, orgId, encrypted,
                  \* identity, connName) and the rows its pair had when it was
                  \* called (prior)
    clusters,     \* table clusters: id -> row, or NoRow
    nextId,       \* the id the next inserted cluster row gets
    postPc,       \* POST /clusters for row c: position of the handler
    response,     \* POST /clusters for row c: the body sent by res.json
    provPc,       \* provisionCluster for row c: its position
    provLocal,    \* row c: the handler's newCluster, then provisionCluster's locals
                  \* (cluster, credentials, result, err) and deploy's deploymentId
    desPc,        \* destroyCluster(c): its position
    desLocal,     \* destroyCluster(c): its locals (cluster, credentials, credRow)
    desResult,    \* destroyCluster(c): how the last call ended
    kcPc,         \* getKubeconfig(c): its position
    kcLocal,      \* getKubeconfig(c): its locals (cluster, credentials, credRow)
    lastCall,     \* the last call that ran to its end in one step, and how it ended
    cloud,        \* the resources that exist at the cloud providers
    uuids,        \* how many identifiers uuidv4() has handed out
    destroyCalls, \* the deployment identifiers an adapter's destroy was called with
    deployRun,    \* one deploy of the gcp or azure adapter: its position and the
                  \* state of each node-creation call it issued
    probe,        \* validateOnPrem: its position and the state of its shell session
    organizations,\* table organizations
    sessions,     \* table user_sessions
    logins        \* loginWithCloudCredentials call l: its position and locals

vaultVars == <<credentials, savePc, saveReq>>

orchVars == <<clusters, nextId, postPc, response, provPc, provLocal,
              desPc, desLocal, desResult, kcPc, kcLocal>>

adapterVars == <<cloud, uuids, destroyCalls>>

serviceVars == <<deployRun, probe, organizations, sessions, logins>>

vars == <<env, dbUp, lastCall, serviceVars, adapterVars, vaultVars, orchVars>>

(***************************************************************************)
(* encryption.ts.  A string is modelled as a tagged value: Text(n) is the  *)
(* plaintext with code n, Hex(iv, ct) is the string "<iv hex>:<ct hex>".   *)
(* CBC over one block: ct = E_key(plain XOR iv); XOR and the block cipher  *)
(* E_key are modelled by the group operation of Z_Modulus.                 *)
(***************************************************************************)
Text(n) == [t |-> "text", v |-> n]

Hex(iv, ct) == [t |-> "hex", iv |-> iv, ct |-> ct]

IsCiphertext(s) == s.t = "hex"

encrypt(text, iv) == Hex(iv, (text.v + iv + SECRET_KEY) % Modulus)

\* Variant of decrypt that deciphers with an all-zero initialization vector.
decryptZeroIv(text) == Text((text.ct + 2 * Modulus - SECRET_KEY) % Modulus)

decrypt(text) == Text((text.ct + 2 * Modulus - text.iv - SECRET_KEY) % Modulus)

(***************************************************************************)
(* credentials.ts: operator-injected credentials.                          *)
(***************************************************************************)
FieldsOf(provider) ==
    CASE provider = "aws"    -> {"accessKeyId", "secretAccessKey", "region"}
      [] provider = "azure"  -> {"clientId", "clientSecret", "tenantId", "subscriptionId"}
      [] provider = "gcp"    -> {"projectId", "serviceAccountKey"}
      [] provider = "onprem" -> {"host", "user", "sshKey"}
      [] OTHER               -> {}

\* A credential set: the fields it carries, where their values come from
\* (src: "env", "db" or "none") and, for a tenant's secret bag, its code.
NoCredentials == [fields |-> {}, src |-> "none", code |-> 0]

hasEnvCredentials(provider) == provider \in env

getEnvCredentials(provider) ==
    IF provider \in Providers
        THEN [fields |-> FieldsOf(provider), src |-> "env", code |-> 0]
        ELSE NoCredentials

\* JSON.stringify(data) / JSON.parse(...) of the secret bag of a provider: the
\* bag submitted for `provider` with secret code n serialises to Text(n).
Serialize(data) == Text(data.code)

Deserialize(provider, text) ==
    [fields |-> FieldsOf(provider), src |-> "db", code |-> text.v]

SecretBag(provider, n) == [fields |-> FieldsOf(provider), src |-> "db", code |-> n]

\* validators.ts: the identity string a successful validation derives.  It
\* quotes the caller's own input for azure (`Azure Sub: ${subscriptionId}`),
\* gcp (`GCP Project: ${projectId} (${key.client_email})`) and onprem
\* (`user@${host}`); for aws it quotes the account STS answers with.
IdentityQuotes(provider) ==
    CASE provider = "azure"  -> {"subscriptionId"}
      [] provider = "gcp"    -> {"projectId", "serviceAccountKey.client_email"}
      [] provider = "onprem" -> {"host"}
      [] OTHER               -> {}

IdentityOf(provider, n) ==
    [t |-> "identity", provider |-> provider, account |-> n,
     quotes |-> IdentityQuotes(provider)]

\* connectionName || `${provider.toUpperCase()} - ${validation.identity}`
ConnectionName(provider, connectionName, identity) ==
    IF connectionName # Undefined
        THEN [t |-> "given", quotes |-> {}]
        ELSE [t |-> "generated", quotes |-> identity.quotes]

OrgOrDefault(organizationId) ==
    IF organizationId = Undefined THEN DEFAULT_ORG_ID ELSE organizationId

RowsOf(provider, orgId) ==
    {r \in credentials : r.provider = provider /\ r.organization_id = orgId}

(***************************************************************************)
(* credentialService.saveCredentials                                       *)
(***************************************************************************)
NoReq == [provider |-> "none"]

\* Variant of SaveValidate that clears the pair's row before it knows the verdict.
SaveValidateDeletesFirst(s, provider, n, organizationId, connectionName, valid, iv) ==
    /\ savePc[s] = "idle"
    /\ credentials' = credentials \ RowsOf(provider, OrgOrDefault(organizationId))
    /\ IF provider \notin Providers \/ ~valid
          THEN /\ savePc' = [savePc EXCEPT ![s] = "rejected"]
               /\ UNCHANGED saveReq
          ELSE /\ savePc' = [savePc EXCEPT ![s] = "delete"]
               /\ saveReq' = [saveReq EXCEPT ![s] =
                     [provider  |-> provider,
                      orgId     |-> OrgOrDefault(organizationId),
                      encrypted |-> encrypt(Serialize(SecretBag(provider, n)), iv),
                      identity  |-> IdentityOf(provider, n),
                      connName  |-> ConnectionName(provider, connectionName,
                                                   IdentityOf(provider, n)),
                      prior     |-> RowsOf(provider, OrgOrDefault(organizationId))]]
    /\ UNCHANGED <<env, serviceVars, dbUp, lastCall, adapterVars, orchVars>>

\* Variant of SaveValidate that keeps the serialized bag as it is, unencrypted.
SaveValidatePlaintext(s, provider, n, organizationId, connectionName, valid, iv) ==
    /\ savePc[s] = "idle"
    /\ IF provider \notin Providers \/ ~valid
          THEN /\ savePc' = [savePc EXCEPT ![s] = "rejected"]
               /\ UNCHANGED saveReq
          ELSE /\ savePc' = [savePc EXCEPT ![s] = "delete"]
               /\ saveReq' = [saveReq EXCEPT ![s] =
                     [provider  |-> provider,
                      orgId     |-> OrgOrDefault(organizationId),
                      encrypted |-> Serialize(SecretBag(provider, n)),
                      identity  |-> IdentityOf(provider, n),
                      connName  |-> ConnectionName(provider, connectionName,
                                                   IdentityOf(provider, n)),
                      prior     |-> RowsOf(provider, OrgOrDefault(organizationId))]]
    /\ UNCHANGED <<env, serviceVars, dbUp, lastCall, adapterVars, credentials, orchVars>>

\* Steps 1-3a: dispatch on the provider, await the validator, encrypt.
\* `valid` is the validator's verdict (a live call to the provider's API).
SaveValidate(s, provider, n, organizationId, connectionName, valid, iv) ==
    /\ savePc[s] = "idle"
    /\ IF provider \notin Providers \/ ~valid
          THEN /\ savePc' = [savePc EXCEPT ![s] = "rejected"]
               /\ UNCHANGED saveReq
          ELSE /\ savePc' = [savePc EXCEPT ![s] = "delete"]
               /\ saveReq' = [saveReq EXCEPT ![s] =
                     [provider  |-> provider,
                      orgId     |-> OrgOrDefault(organizationId),
                      encrypted |-> encrypt(Serialize(SecretBag(provider, n)), iv),
                      identity  |-> IdentityOf(provider, n),
                      connName  |-> ConnectionName(provider, connectionName,
                                                   IdentityOf(provider, n)),
                      prior     |-> RowsOf(provider, OrgOrDefault(organizationId))]]
    /\ UNCHANGED <<env, serviceVars, dbUp, lastCall, adapterVars, credentials, orchVars>>

\* DELETE FROM credentials WHERE provider = $1 AND organization_id = $2
SaveDelete(s) ==
    /\ savePc[s] = "delete"
    /\ IF dbUp
          THEN /\ credentials' = credentials \ RowsOf(saveReq[s].provider, saveReq[s].orgId)
               /\ savePc' = [savePc EXCEPT ![s] = "insert"]
               /\ UNCHANGED saveReq
          ELSE /\ savePc' = [savePc EXCEPT ![s] = "failed"]
               /\ saveReq' = [saveReq EXCEPT ![s] = NoReq]
               /\ UNCHANGED credentials
    /\ UNCHANGED <<env, serviceVars, dbUp, lastCall, adapterVars, orchVars>>

NewRow(req) ==
    [provider        |-> req.provider,
     encrypted_data  |-> req.encrypted,
     identity        |-> req.identity,
     organization_id |-> req.orgId,
     connection_name |-> req.connName]

\* Variant of UniqueViolation for a table without the unique index.
NoUniqueIndex(row) == FALSE

\* database.ts: CREATE UNIQUE INDEX idx_credentials_org_provider
\*              ON credentials(organization_id, provider)
UniqueViolation(row) ==
    \E r \in credentials :
        r.organization_id = row.organization_id /\ r.provider = row.provider

\* INSERT INTO credentials (...) VALUES (...)
SaveInsert(s) ==
    /\ savePc[s] = "insert"
    /\ IF dbUp /\ ~UniqueViolation(NewRow(saveReq[s]))
          THEN /\ credentials' = credentials \cup {NewRow(saveReq[s])}
               /\ savePc' = [savePc EXCEPT ![s] = "saved"]
               /\ UNCHANGED saveReq
          ELSE /\ savePc' = [savePc EXCEPT ![s] = "failed"]
               /\ saveReq' = [saveReq EXCEPT ![s] = NoReq]
               /\ UNCHANGED credentials
    /\ UNCHANGED <<env, serviceVars, dbUp, lastCall, adapterVars, orchVars>>

(***************************************************************************)
(* credentialService.disconnect: one call from its start to its end (it    *)
(* has a single await, the DELETE).  It throws "Cannot disconnect          *)
(* credentials set via Environment Variables." when the provider has       *)
(* operator-injected credentials, throws what the query throws, and        *)
(* otherwise returns true.                                                 *)
(***************************************************************************)
DisconnectCall(provider, organizationId, outcome) ==
    [op |-> "disconnect", provider |-> provider,
     orgId |-> OrgOrDefault(organizationId), outcome |-> outcome]

\* Variant of disconnect that runs the DELETE before it looks at the environment.
disconnectThenCheck(provider, organizationId) ==
    /\ IF ~dbUp
          THEN /\ lastCall' = DisconnectCall(provider, organizationId, "threw")
               /\ UNCHANGED credentials
          ELSE /\ credentials' = credentials \ RowsOf(provider, OrgOrDefault(organizationId))
               /\ lastCall' = DisconnectCall(provider, organizationId,
                     IF hasEnvCredentials(provider) THEN "ImmutableSource" ELSE "returned")
    /\ UNCHANGED <<env, serviceVars, dbUp, adapterVars, savePc, saveReq, orchVars>>

disconnect(provider, organizationId) ==
    /\ IF hasEnvCredentials(provider)
          THEN /\ lastCall' = DisconnectCall(provider, organizationId, "ImmutableSource")
               /\ UNCHANGED credentials
          ELSE IF ~dbUp
              THEN /\ lastCall' = DisconnectCall(provider, organizationId, "threw")
                   /\ UNCHANGED credentials
              ELSE /\ credentials' = credentials \ RowsOf(provider, OrgOrDefault(organizationId))
                   /\ lastCall' = DisconnectCall(provider, organizationId, "returned")
    /\ UNCHANGED <<env, serviceVars, dbUp, adapterVars, savePc, saveReq, orchVars>>

(***************************************************************************)
(* The store: pool.query rejects while the database is unreachable.        *)
(***************************************************************************)
DbFail ==
    /\ dbUp
    /\ dbUp' = FALSE
    /\ UNCHANGED <<env, serviceVars, lastCall, adapterVars, vaultVars, orchVars>>

DbRecover ==
    /\ ~dbUp
    /\ dbUp' = TRUE
    /\ UNCHANGED <<env, serviceVars, lastCall, adapterVars, vaultVars, orchVars>>

(***************************************************************************)
(* credentialService.loadCredentials: the rows its SELECT may return       *)
(* (provider AND organization_id), and the value it resolves to.           *)
(***************************************************************************)
Null == [fields |-> {}, src |-> "null", code |-> 0]

DecryptRow(provider, row) == Deserialize(provider, decrypt(row.encrypted_data))

\* Variant of loadCredentials whose SELECT filters on the provider alone.
loadCredentialsAnyTenant(provider, orgId) ==
    IF hasEnvCredentials(provider)
        THEN getEnvCredentials(provider)
        ELSE IF {r \in credentials : r.provider = provider} # {}
            THEN DecryptRow(provider,
                     CHOOSE r \in {x \in credentials : x.provider = provider} : TRUE)
            ELSE Null

loadCredentials(provider, orgId) ==
    IF hasEnvCredentials(provider)
        THEN getEnvCredentials(provider)
        ELSE IF RowsOf(provider, orgId) # {}
            THEN DecryptRow(provider, CHOOSE r \in RowsOf(provider, orgId) : TRUE)
            ELSE Null

\* One call of credentialService.loadCredentials from its start to its end:
\* it returns a value, or throws what its SELECT throws.
LoadCredentialsCall(provider, organizationId) ==
    /\ lastCall' =
          IF ~hasEnvCredentials(provider) /\ ~dbUp
              THEN [op |-> "loadCredentials", provider |-> provider,
                    orgId |-> OrgOrDefault(organizationId),
                    outcome |-> "threw", value |-> Null]
              ELSE [op |-> "loadCredentials", provider |-> provider,
                    orgId |-> OrgOrDefault(organizationId),
                    outcome |-> "returned",
                    value |-> loadCredentials(provider, OrgOrDefault(organizationId))]
    /\ UNCHANGED <<env, serviceVars, dbUp, adapterVars, vaultVars, orchVars>>

(***************************************************************************)
(* credentialService.getStatus: one call from its start to its end.  A     *)
(* rejected SELECT is caught and logged, and the answer is then            *)
(* {connected: false}.                                                     *)
(***************************************************************************)
Literal == [t |-> "literal", quotes |-> {}]

NotConnected == [connected |-> FALSE, source |-> "none"]

StatusOfRow(row) ==
    [connected       |-> TRUE,
     source          |-> "db",
     identity        |-> row.identity,
     connection_name |-> row.connection_name,
     organization_id |-> row.organization_id]

\* Variant of getStatus whose SELECT filters on the provider alone.
getStatusAnyTenant(provider, organizationId) ==
    IF hasEnvCredentials(provider)
        THEN [connected |-> TRUE, source |-> "env", identity |-> Literal,
              connection_name |-> Literal,
              organization_id |-> OrgOrDefault(organizationId)]
        ELSE IF dbUp /\ {r \in credentials : r.provider = provider} # {}
            THEN StatusOfRow(CHOOSE r \in credentials : r.provider = provider)
            ELSE NotConnected

getStatus(provider, organizationId) ==
    IF hasEnvCredentials(provider)
        THEN [connected |-> TRUE, source |-> "env", identity |-> Literal,
              connection_name |-> Literal,
              organization_id |-> OrgOrDefault(organizationId)]
        ELSE IF dbUp /\ RowsOf(provider, OrgOrDefault(organizationId)) # {}
            THEN StatusOfRow(CHOOSE r \in RowsOf(provider, OrgOrDefault(organizationId)) : TRUE)
            ELSE NotConnected

GetStatusCall(provider, organizationId) ==
    /\ lastCall' = [op |-> "getStatus", provider |-> provider,
                    organizationId |-> organizationId,
                    answer |-> getStatus(provider, organizationId)]
    /\ UNCHANGED <<env, serviceVars, dbUp, adapterVars, vaultVars, orchVars>>

(***************************************************************************)
(* provisioner.ts (second definition of `provisioner`, the one the API     *)
(* server imports through ./providers).                                    *)
(***************************************************************************)
NoRow    == [status |-> "absent"]
NoResult == [success |-> FALSE]
NoKey    == [t |-> "undefined"]
NoTag    == 0       \* no deployment identifier
NoLocal  == [cluster |-> NoRow]

\* getProvider: the fields of `credentials` each adapter's constructor is given.
AdapterFields(providerName) ==
    CASE providerName = "aws"    -> {"accessKeyId", "secretAccessKey"}
      [] providerName = "azure"  -> {"subscriptionId", "tenantId", "clientId", "clientSecret"}
      [] providerName = "gcp"    -> {"projectId", "serviceAccountKey"}
      [] providerName = "onprem" -> {"host", "user", "sshKey"}
      [] OTHER                   -> {}

\* What getProvider hands to the adapter: undefined for every field the
\* credential object lacks.
getProvider(providerName, creds) ==
    IF creds.fields \cap AdapterFields(providerName) = {}
        THEN [kind |-> providerName, fields |-> {}, src |-> "none", code |-> 0]
        ELSE [kind   |-> providerName,
              fields |-> creds.fields \cap AdapterFields(providerName),
              src    |-> creds.src,
              code   |-> creds.code]

\* POST /clusters: the organization the new row is assigned to, or "403".
OrganizationFor(isAdmin, orgId, bodyOrg) ==
    IF isAdmin
        THEN IF bodyOrg # Undefined THEN bodyOrg
             ELSE IF orgId # Undefined THEN orgId ELSE DEFAULT_ORG_ID
        ELSE IF orgId # Undefined
            THEN IF bodyOrg # Undefined /\ bodyOrg # orgId THEN "403" ELSE orgId
            ELSE DEFAULT_ORG_ID

\* The config column of a new row: the request body's config (nodeCount
\* among its fields), with no provisioningResult and no error yet.
InitialConfig ==
    [original |-> TRUE, nodeCount |-> MaxNodes,
     provisioningResult |-> NoResult, error |-> "none"]

\* POST /clusters up to the INSERT ... RETURNING * (status 'pending').
PostClustersInsert(provider, isAdmin, orgId, bodyOrg) ==
    /\ nextId <= MaxClusters
    /\ OrganizationFor(isAdmin, orgId, bodyOrg) \in Orgs
    /\ dbUp
    /\ clusters' = [clusters EXCEPT ![nextId] =
          [provider        |-> provider,
           status          |-> "pending",
           config          |-> InitialConfig,
           organization_id |-> OrganizationFor(isAdmin, orgId, bodyOrg)]]
    /\ postPc' = [postPc EXCEPT ![nextId] = "loadCredentials"]
    /\ provLocal' = [provLocal EXCEPT ![nextId] = [cluster |-> clusters'[nextId]]]
    /\ nextId' = nextId + 1
    /\ UNCHANGED <<env, serviceVars, dbUp, lastCall, adapterVars, vaultVars, response, provPc,
                   desPc, desLocal, desResult, kcPc, kcLocal>>

\* Variant of PostClustersTrigger that awaits provisionCluster before answering.
PostClustersTriggerAwaited(c) ==
    /\ postPc[c] = "loadCredentials"
    /\ LET newCluster == provLocal[c].cluster
           creds == loadCredentials(newCluster.provider, newCluster.organization_id)
       IN IF ~hasEnvCredentials(newCluster.provider) /\ ~dbUp
             THEN /\ postPc' = [postPc EXCEPT ![c] = "failed"]
                  /\ UNCHANGED <<response, provPc, provLocal>>
             ELSE /\ provPc' = [provPc EXCEPT ![c] = "getProvider"]
                  /\ provLocal' = [provLocal EXCEPT ![c] =
                        [cluster     |-> newCluster,
                         credentials |-> IF creds = Null THEN NoCredentials ELSE creds,
                         result      |-> NoResult,
                         deploymentId |-> NoTag,
                         err         |-> "none"]]
                  /\ postPc' = [postPc EXCEPT ![c] = "awaitProvision"]
                  /\ UNCHANGED response
    /\ UNCHANGED <<env, serviceVars, dbUp, lastCall, adapterVars, vaultVars, clusters, nextId,
                   desPc, desLocal, desResult, kcPc, kcLocal>>

\* POST /clusters after `await credentialService.loadCredentials(...)`: either
\* the lookup threw (catch: 500), or provisionCluster is called without await
\* and res.json(newCluster) follows in the same synchronous run.
PostClustersTrigger(c) ==
    /\ postPc[c] = "loadCredentials"
    /\ LET newCluster == provLocal[c].cluster
           creds == loadCredentials(newCluster.provider, newCluster.organization_id)
       IN IF ~hasEnvCredentials(newCluster.provider) /\ ~dbUp
             THEN /\ postPc' = [postPc EXCEPT ![c] = "failed"]
                  /\ UNCHANGED <<response, provPc, provLocal>>
             ELSE /\ provPc' = [provPc EXCEPT ![c] = "getProvider"]
                  /\ provLocal' = [provLocal EXCEPT ![c] =
                        [cluster     |-> newCluster,
                         credentials |-> IF creds = Null THEN NoCredentials ELSE creds,
                         result      |-> NoResult,
                         deploymentId |-> NoTag,
                         err         |-> "none"]]
                  /\ response' = [response EXCEPT ![c] = newCluster]
                  /\ postPc' = [postPc EXCEPT ![c] = "responded"]
    /\ UNCHANGED <<env, serviceVars, dbUp, lastCall, adapterVars, vaultVars, clusters, nextId,
                   desPc, desLocal, desResult, kcPc, kcLocal>>

\* provisionCluster: `await this.getProvider(...)`, which throws for a
\* provider name outside the four it knows.
ProvGetProvider(c) ==
    /\ provPc[c] = "getProvider"
    /\ IF provLocal[c].cluster.provider \notin Providers
          THEN /\ provPc' = [provPc EXCEPT ![c] = "writeError"]
               /\ provLocal' = [provLocal EXCEPT ![c].err = "not supported"]
          ELSE /\ provPc' = [provPc EXCEPT ![c] = "deploy"]
               /\ UNCHANGED provLocal
    /\ UNCHANGED <<env, serviceVars, dbUp, lastCall, adapterVars, vaultVars, clusters, nextId, postPc, response,
                   desPc, desLocal, desResult, kcPc, kcLocal>>

(***************************************************************************)
(* providers/*.ts: the adapters.  A cloud resource is a record: its kind,  *)
(* the provider it lives at, the value of its DeploymentId tag (NoTag when *)
(* it carries none), the deploy call that created it (`by`) and its index. *)
(* A deployment identifier is the number of the uuidv4() call that made it.*)
(***************************************************************************)
Resource(kind, provider, tag, d, i) ==
    [kind |-> kind, provider |-> provider, tag |-> tag, by |-> d, n |-> i]

\* AWSProvider.deploy: CreateKeyPair (no TagSpecifications; a failure is only
\* logged), createSecurityGroup (tagged; a failure is only logged), then one
\* RunInstances with MinCount = MaxCount = nodeCount (all or nothing).
AwsDeployResources(d, nodeCount, key, sgOk, made) ==
    (IF key # NoKey THEN {Resource("key-pair", "aws", NoTag, d, 0)} ELSE {})
    \cup (IF sgOk THEN {Resource("security-group", "aws", d, d, 0)} ELSE {})
    \cup (IF made = 1..nodeCount
            THEN {Resource("instance", "aws", d, d, i) : i \in 1..nodeCount}
            ELSE {})

\* AzureProvider.deploy: the virtual network, then per node a public address,
\* a network interface and the virtual machine; only the machine is given
\* the DeploymentId tag.  A node outside `made` failed at its machine.
AzureDeployResources(d, nodeCount, made) ==
    {Resource("vnet", "azure", NoTag, d, 0)}
    \cup {Resource("public-ip", "azure", NoTag, d, i) : i \in 1..nodeCount}
    \cup {Resource("nic", "azure", NoTag, d, i) : i \in 1..nodeCount}
    \cup {Resource("instance", "azure", d, d, i) : i \in made}

\* GCPProvider.deploy: one instances.insert per node, labelled deployment_id.
GcpDeployResources(d, nodeCount, made) ==
    {Resource("instance", "gcp", d, d, i) : i \in made}

DeployResources(provider, d, nodeCount, key, sgOk, made) ==
    CASE provider = "aws"   -> AwsDeployResources(d, nodeCount, key, sgOk, made)
      [] provider = "azure" -> AzureDeployResources(d, nodeCount, made)
      [] provider = "gcp"   -> GcpDeployResources(d, nodeCount, made)
      [] OTHER              -> {}

\* The nodes a deploy call has created when it ends: none, the first ones, all.
MadeInputs == {1..k : k \in 0..MaxNodes}

\* deploy resolves iff every node was created; OnPremProvider.deploy always does.
DeploySucceeds(provider, nodeCount, made) ==
    provider = "onprem" \/ made = 1..nodeCount

\* The node descriptors of a result (`instances` for aws and onprem, `nodes`
\* for azure and gcp).  OnPremProvider registers the one fixed host.
NodeDescriptors(d, provider, nodeCount) ==
    IF provider = "onprem"
        THEN <<[host |-> "static-host-1", deployment |-> NoTag, n |-> 1]>>
        ELSE [i \in 1..nodeCount |-> [host |-> "created", deployment |-> d, n |-> i]]

\* What an adapter's destroy finds under the tag: AWSProvider describes
\* instances only, GCPProvider lists instances, AzureProvider lists every
\* resource of the group with that tag; OnPremProvider looks for nothing.
DestroyFound(provider, d) ==
    IF provider = "onprem" \/ d = NoTag
        THEN {}
        ELSE {r \in cloud : r.provider = provider /\ r.tag = d
                            /\ (provider \in {"aws", "gcp"} => r.kind = "instance")}

ApiOutcomes == {"ok", "listFails", "deleteFails"}

\* The cloud after destroy(d): what was found is deleted unless a call failed.
DestroyCloud(provider, d, api) ==
    IF api = "ok" THEN cloud \ DestroyFound(provider, d) ELSE cloud

\* How destroy(d) ends.  AWSProvider throws on an empty identifier, the Azure
\* and GCP adapters return {success: false, error: "No ID"}.  AzureProvider
\* only logs a delete that fails; AzureProvider and OnPremProvider return no
\* count.
DestroyOutcome(provider, d, api) ==
    LET found == DestroyFound(provider, d)
        threw == [outcome |-> "threw", value |-> [success |-> FALSE]]
    IN CASE provider = "onprem" ->
              [outcome |-> "returned", value |-> [success |-> TRUE]]
         [] provider = "aws" ->
              IF d = NoTag \/ api = "listFails" \/ (api = "deleteFails" /\ found # {})
                  THEN threw
                  ELSE [outcome |-> "returned",
                        value |-> [success |-> TRUE, count |-> Cardinality(found)]]
         [] provider = "gcp" ->
              IF d = NoTag
                  THEN [outcome |-> "returned", value |-> [success |-> FALSE]]
                  ELSE IF api = "listFails" \/ (api = "deleteFails" /\ found # {})
                      THEN threw
                      ELSE [outcome |-> "returned",
                            value |-> [success |-> TRUE, count |-> Cardinality(found)]]
         [] OTHER ->
              IF d = NoTag
                  THEN [outcome |-> "returned", value |-> [success |-> FALSE]]
                  ELSE IF api = "listFails"
                      THEN threw
                      ELSE [outcome |-> "returned", value |-> [success |-> TRUE]]

\* The file /etc/rancher/k3s/k3s.yaml as a sequence of tokens, and
\* stdout.replace(/127\.0\.0\.1/g, publicIp).
Loopback == "127.0.0.1"

PublicIp == "203.0.113.7"

K3sYaml == <<Loopback, "other", Loopback>>

KubeconfigTexts == {<<Loopback>>, <<"other", Loopback>>, <<Loopback, "other", Loopback>>}

RewriteLoopback(text, address) ==
    [i \in DOMAIN text |-> IF text[i] = Loopback THEN address ELSE text[i]]

Threw(message) == [outcome |-> "threw", message |-> message, text |-> <<>>]

\* An adapter's getKubeconfig(provisioningResult).  `config` is what
\* getProvider gave the constructor, `hasIp` whether DescribeInstances reports
\* a public address for the first instance, `sshOk` whether the shell session
\* and the cat succeed.
AdapterGetKubeconfig(provider, config, result, hasIp, sshOk, text) ==
    CASE provider = "aws" ->
            IF ~result.success \/ Len(result.nodes) = 0
                THEN Threw("No instances to retrieve kubeconfig from")
            ELSE IF ~hasIp
                THEN Threw("Instance has no Public IP yet")
            ELSE IF result.details.keyMaterial = NoKey
                THEN Threw("No SSH Key available to retrieve kubeconfig")
            ELSE IF ~sshOk
                THEN Threw("Kubeconfig Retrieval Failed")
            ELSE [outcome |-> "returned", message |-> "",
                  text |-> RewriteLoopback(text, PublicIp)]
      [] provider = "onprem" ->
            IF ~({"host", "user", "sshKey"} \subseteq config.fields)
                THEN Threw("Missing OnPrem connection details")
            ELSE IF ~sshOk
                THEN Threw("OnPrem Kubeconfig retrieval failed")
            ELSE [outcome |-> "returned", message |-> "",
                  text |-> RewriteLoopback(text, PublicIp)]
      [] provider = "azure" ->
            Threw("Azure Kubeconfig retrieval not implemented in MVP yet.")
      [] OTHER ->
            Threw("GCP Kubeconfig retrieval not implemented in MVP yet.")

\* Variant of DeployResult that reports one descriptor per deploy call.
DeployResultSingleNode(d, provider, key, nodeCount) ==
    [success      |-> TRUE,
     deploymentId |-> d,
     nodes        |-> NodeDescriptors(d, provider, 1),
     details      |-> [keyMaterial |-> IF provider = "aws" THEN key ELSE NoKey,
                       isEncrypted |-> FALSE]]

\* The result of a successful provider.deploy with deployment identifier d.
\* Only AWSProvider returns details.keyMaterial (undefined when CreateKeyPair
\* failed; JSON.stringify drops an undefined field).
DeployResult(d, provider, key, nodeCount) ==
    [success      |-> TRUE,
     deploymentId |-> d,
     nodes        |-> NodeDescriptors(d, provider, nodeCount),
     details      |-> [keyMaterial |-> IF provider = "aws" THEN key ELSE NoKey,
                       isEncrypted |-> FALSE]]

\* Variant of EncryptKeyMaterial that persists the result as deploy returned it.
SkipEncryptKeyMaterial(result, iv) == result

\* SECURITY: Encrypt SSH Key Material before saving to DB
EncryptKeyMaterial(result, iv) ==
    IF result.details.keyMaterial # NoKey
        THEN [result EXCEPT !.details =
                 [keyMaterial |-> encrypt(result.details.keyMaterial, iv),
                  isEncrypted |-> TRUE]]
        ELSE result

KeyInputs == {NoKey} \cup {Text(k) : k \in Secrets}

\* Whether the provider's API accepts the calls of an adapter built by
\* getProvider from `creds`: a cloud API rejects a client that was given
\* undefined credential fields; OnPremProvider.deploy contacts nobody.
Authenticates(provider, creds) ==
    provider = "onprem" \/ AdapterFields(provider) \subseteq creds.fields

\* provisionCluster: `await provider.deploy(...)` and the synchronous code up
\* to the UPDATE.  Whatever deploy created before it failed stays in the cloud.
ProvDeploy(c, key, sgOk, made, iv) ==
    /\ provPc[c] = "deploy"
    /\ LET provider == provLocal[c].cluster.provider
           nodeCount == provLocal[c].cluster.config.nodeCount
           d == uuids + 1
           authenticated == Authenticates(provider, provLocal[c].credentials)
       IN /\ made \subseteq 1..nodeCount
          /\ uuids' = d
          /\ cloud' = IF authenticated
                         THEN cloud \cup DeployResources(provider, d, nodeCount,
                                                         key, sgOk, made)
                         ELSE cloud
          /\ IF authenticated /\ DeploySucceeds(provider, nodeCount, made)
                THEN /\ provPc' = [provPc EXCEPT ![c] = "writeActive"]
                     /\ provLocal' = [provLocal EXCEPT
                           ![c].deploymentId = d,
                           ![c].result = EncryptKeyMaterial(
                               DeployResult(d, provider, key, nodeCount), iv)]
                ELSE /\ provPc' = [provPc EXCEPT ![c] = "writeError"]
                     /\ provLocal' = [provLocal EXCEPT
                           ![c].deploymentId = d, ![c].err = "deploy"]
    /\ UNCHANGED <<env, serviceVars, dbUp, lastCall, destroyCalls, vaultVars, clusters, nextId,
                   postPc, response, desPc, desLocal, desResult, kcPc, kcLocal>>

\* JSON.stringify({ error: err.message }): none of the row's former config
\* fields is kept.
ErrorConfig(message) ==
    [original |-> FALSE, nodeCount |-> 0,
     provisioningResult |-> NoResult, error |-> message]

\* Variant of UpdateCluster that writes the row back when no row has that id.
UpsertCluster(c, status, config) ==
    IF clusters[c] = NoRow
        THEN [clusters EXCEPT ![c] =
                 [provider        |-> "aws",
                  status          |-> status,
                  config          |-> config,
                  organization_id |-> DEFAULT_ORG_ID]]
        ELSE [clusters EXCEPT ![c].status = status, ![c].config = config]

\* UPDATE clusters SET status = $1, config = $2 WHERE id = $3
UpdateCluster(c, status, config) ==
    IF clusters[c] = NoRow
        THEN clusters
        ELSE [clusters EXCEPT ![c].status = status, ![c].config = config]

\* Variant of ProvWriteActive in which control still reaches `catch` after the
\* success write went through.
ProvWriteActiveThenCatch(c) ==
    /\ provPc[c] = "writeActive"
    /\ IF dbUp
          THEN /\ clusters' = UpdateCluster(c, "active",
                     [provLocal[c].cluster.config EXCEPT
                         !.provisioningResult = provLocal[c].result])
               /\ provPc' = [provPc EXCEPT ![c] = "writeError"]
               /\ provLocal' = [provLocal EXCEPT ![c].err = "after write"]
          ELSE /\ provPc' = [provPc EXCEPT ![c] = "writeError"]
               /\ provLocal' = [provLocal EXCEPT ![c].err = "db"]
               /\ UNCHANGED clusters
    /\ UNCHANGED <<env, serviceVars, dbUp, lastCall, adapterVars, vaultVars, nextId, postPc, response,
                   desPc, desLocal, desResult, kcPc, kcLocal>>

\* provisionCluster: the success write; a rejected query lands in `catch`.
ProvWriteActive(c) ==
    /\ provPc[c] = "writeActive"
    /\ IF dbUp
          THEN /\ clusters' = UpdateCluster(c, "active",
                     [provLocal[c].cluster.config EXCEPT
                         !.provisioningResult = provLocal[c].result])
               /\ provPc' = [provPc EXCEPT ![c] = "done"]
               /\ UNCHANGED provLocal
          ELSE /\ provPc' = [provPc EXCEPT ![c] = "writeError"]
               /\ provLocal' = [provLocal EXCEPT ![c].err = "db"]
               /\ UNCHANGED clusters
    /\ UNCHANGED <<env, serviceVars, dbUp, lastCall, adapterVars, vaultVars, nextId, postPc, response,
                   desPc, desLocal, desResult, kcPc, kcLocal>>

\* provisionCluster: the write in `catch`; if this query rejects too, the
\* promise of provisionCluster rejects and nobody awaits it.
ProvWriteError(c) ==
    /\ provPc[c] = "writeError"
    /\ IF dbUp
          THEN /\ clusters' = UpdateCluster(c, "error", ErrorConfig(provLocal[c].err))
               /\ provPc' = [provPc EXCEPT ![c] = "done"]
          ELSE /\ provPc' = [provPc EXCEPT ![c] = "rejected"]
               /\ UNCHANGED clusters
    /\ UNCHANGED <<env, serviceVars, dbUp, lastCall, adapterVars, vaultVars, nextId, postPc, response, provLocal,
                   desPc, desLocal, desResult, kcPc, kcLocal>>

(***************************************************************************)
(* provisioner.destroyCluster                                              *)
(***************************************************************************)
HasDeploymentId(cluster) == cluster.config.provisioningResult.success

\* SELECT encrypted_data FROM credentials WHERE provider = $1
\* (no organization_id, no ORDER BY: rows[0] is any row of that provider).
RowsOfProvider(provider) == {r \in credentials : r.provider = provider}

\* Variant of DestroySelect that goes on to the remote teardown whatever the
\* row's config holds.
DestroySelectAlwaysRemote(c) ==
    /\ desPc[c] = "idle"
    /\ dbUp
    /\ clusters[c] # NoRow
    /\ desLocal' = [desLocal EXCEPT ![c] =
          [cluster |-> clusters[c], credentials |-> NoCredentials, credRow |-> NoRow]]
    /\ desPc' = [desPc EXCEPT ![c] = "loadCredentials"]
    /\ desResult' = [desResult EXCEPT ![c] = "running"]
    /\ UNCHANGED <<env, serviceVars, dbUp, lastCall, adapterVars, vaultVars, clusters, nextId, postPc, response,
                   provPc, provLocal, kcPc, kcLocal>>

\* SELECT * FROM clusters WHERE id = $1, then the deploymentId test.
DestroySelect(c) ==
    /\ desPc[c] = "idle"
    /\ dbUp
    /\ clusters[c] # NoRow
    /\ desLocal' = [desLocal EXCEPT ![c] =
          [cluster |-> clusters[c], credentials |-> NoCredentials, credRow |-> NoRow]]
    /\ desPc' = [desPc EXCEPT ![c] =
          IF HasDeploymentId(clusters[c]) THEN "loadCredentials" ELSE "deleteOnly"]
    /\ desResult' = [desResult EXCEPT ![c] = "running"]
    /\ UNCHANGED <<env, serviceVars, dbUp, lastCall, adapterVars, vaultVars, clusters, nextId, postPc, response,
                   provPc, provLocal, kcPc, kcLocal>>

\* DELETE FROM clusters WHERE id = $1; a rejected query makes the call throw.
DeleteCluster(c, pc) ==
    /\ desPc[c] = pc
    /\ IF dbUp
          THEN /\ clusters' = [clusters EXCEPT ![c] = NoRow]
               /\ desResult' = [desResult EXCEPT ![c] = "returned"]
          ELSE /\ desResult' = [desResult EXCEPT ![c] = "deleteFailed"]
               /\ UNCHANGED clusters
    /\ desPc' = [desPc EXCEPT ![c] = "idle"]
    /\ desLocal' = [desLocal EXCEPT ![c] = NoLocal]
    /\ UNCHANGED <<env, serviceVars, dbUp, lastCall, adapterVars, vaultVars, nextId, postPc, response,
                   provPc, provLocal, kcPc, kcLocal>>

\* "Just delete from DB if no resources were created"
DestroyDeleteOnly(c) == DeleteCluster(c, "deleteOnly")

\* "Load credentials": environment first, else the credentials table.  The
\* query is outside any try block: if it rejects, destroyCluster throws.
DestroyLoadCredentials(c) ==
    /\ desPc[c] = "loadCredentials"
    /\ LET provider == desLocal[c].cluster.provider
       IN IF hasEnvCredentials(provider)
             THEN /\ desLocal' = [desLocal EXCEPT
                        ![c].credentials = getEnvCredentials(provider)]
                  /\ desPc' = [desPc EXCEPT ![c] = "remote"]
                  /\ UNCHANGED desResult
             ELSE IF ~dbUp
                 THEN /\ desPc' = [desPc EXCEPT ![c] = "idle"]
                      /\ desLocal' = [desLocal EXCEPT ![c] = NoLocal]
                      /\ desResult' = [desResult EXCEPT ![c] = "credentialsFailed"]
                 ELSE /\ desPc' = [desPc EXCEPT ![c] = "remote"]
                      /\ UNCHANGED desResult
                      /\ IF RowsOfProvider(provider) = {}
                            THEN UNCHANGED desLocal
                            ELSE \E r \in RowsOfProvider(provider) :
                                    desLocal' = [desLocal EXCEPT
                                        ![c].credentials = DecryptRow(provider, r),
                                        ![c].credRow = r]
    /\ UNCHANGED <<env, serviceVars, dbUp, lastCall, adapterVars, vaultVars, clusters, nextId, postPc, response,
                   provPc, provLocal, kcPc, kcLocal>>

\* try { getProvider(...); await provider.destroy(deploymentId) } catch { log }
\* Whatever the remote outcome, control reaches the DELETE.
DestroyRemote(c, api) ==
    /\ desPc[c] = "remote"
    /\ LET provider == desLocal[c].cluster.provider
           d == desLocal[c].cluster.config.provisioningResult.deploymentId
       IN IF provider \in Providers
             THEN /\ destroyCalls' = destroyCalls \cup {d}
                  /\ cloud' = DestroyCloud(provider, d, api)
             ELSE UNCHANGED <<destroyCalls, cloud>>
    /\ desPc' = [desPc EXCEPT ![c] = "delete"]
    /\ UNCHANGED <<env, serviceVars, dbUp, lastCall, uuids, vaultVars, clusters, nextId, postPc,
                   response, provPc, provLocal, desLocal, desResult, kcPc, kcLocal>>

DestroyDelete(c) == DeleteCluster(c, "delete")

(***************************************************************************)
(* provisioner.getKubeconfig                                               *)
(***************************************************************************)
KubeconfigSelect(c) ==
    /\ kcPc[c] = "idle"
    /\ dbUp
    /\ clusters[c] # NoRow
    /\ kcLocal' = [kcLocal EXCEPT ![c] =
          [cluster |-> clusters[c], credentials |-> NoCredentials, credRow |-> NoRow]]
    /\ kcPc' = [kcPc EXCEPT ![c] = "loadCredentials"]
    /\ UNCHANGED <<env, serviceVars, dbUp, lastCall, adapterVars, vaultVars, clusters, nextId, postPc, response,
                   provPc, provLocal, desPc, desLocal, desResult>>

\* The environment branch builds a credential object for aws only
\* ("// ... other envs"); every other provider keeps `{}`.
KubeconfigEnvCredentials(provider) ==
    IF provider = "aws"
        THEN [fields |-> {"accessKeyId", "secretAccessKey"}, src |-> "env", code |-> 0]
        ELSE NoCredentials

KubeconfigLoadCredentials(c) ==
    /\ kcPc[c] = "loadCredentials"
    /\ LET provider == kcLocal[c].cluster.provider
       IN IF hasEnvCredentials(provider)
             THEN /\ kcLocal' = [kcLocal EXCEPT
                        ![c].credentials = KubeconfigEnvCredentials(provider)]
                  /\ kcPc' = [kcPc EXCEPT ![c] = "provider"]
             ELSE IF ~dbUp
                 THEN /\ kcPc' = [kcPc EXCEPT ![c] = "idle"]
                      /\ kcLocal' = [kcLocal EXCEPT ![c] = NoLocal]
                 ELSE /\ kcPc' = [kcPc EXCEPT ![c] = "provider"]
                      /\ IF RowsOfProvider(provider) = {}
                            THEN UNCHANGED kcLocal
                            ELSE \E r \in RowsOfProvider(provider) :
                                    kcLocal' = [kcLocal EXCEPT
                                        ![c].credentials = DecryptRow(provider, r),
                                        ![c].credRow = r]
    /\ UNCHANGED <<env, serviceVars, dbUp, lastCall, adapterVars, vaultVars, clusters, nextId, postPc, response,
                   provPc, provLocal, desPc, desLocal, desResult>>

\* "We pass a clone with the decrypted key": the stored result with its key
\* material decrypted when it is marked encrypted, else the stored result.
DecryptedResult(provisioningResult) ==
    IF provisioningResult.success
            /\ provisioningResult.details.isEncrypted
            /\ provisioningResult.details.keyMaterial # NoKey
        THEN [provisioningResult EXCEPT
                 !.details.keyMaterial = decrypt(provisioningResult.details.keyMaterial)]
        ELSE provisioningResult

\* getProvider, the decryption of a copy of the result and the adapter's
\* getKubeconfig; what the adapter answers is what getKubeconfig answers.
KubeconfigAnswer(cluster, creds, hasIp, sshOk, text) ==
    IF cluster.provider \notin Providers
        THEN Threw("not supported")
        ELSE AdapterGetKubeconfig(cluster.provider,
                 getProvider(cluster.provider, creds),
                 DecryptedResult(cluster.config.provisioningResult),
                 hasIp, sshOk, text)

KubeconfigCall(answer) ==
    [op |-> "getKubeconfig", outcome |-> answer.outcome,
     message |-> answer.message, text |-> answer.text]

\* Variant of KubeconfigProvider that decrypts the stored result in place and
\* saves the row back.
KubeconfigProviderWritesBack(c, hasIp, sshOk, text) ==
    /\ kcPc[c] = "provider"
    /\ lastCall' = KubeconfigCall(
          KubeconfigAnswer(kcLocal[c].cluster, kcLocal[c].credentials, hasIp, sshOk, text))
    /\ clusters' = UpdateCluster(c, kcLocal[c].cluster.status,
          [kcLocal[c].cluster.config EXCEPT
              !.provisioningResult = DecryptedResult(@)])
    /\ kcPc' = [kcPc EXCEPT ![c] = "idle"]
    /\ kcLocal' = [kcLocal EXCEPT ![c] = NoLocal]
    /\ UNCHANGED <<env, serviceVars, dbUp, adapterVars, vaultVars, nextId, postPc, response,
                   provPc, provLocal, desPc, desLocal, desResult>>

KubeconfigProvider(c, hasIp, sshOk, text) ==
    /\ kcPc[c] = "provider"
    /\ lastCall' = KubeconfigCall(
          KubeconfigAnswer(kcLocal[c].cluster, kcLocal[c].credentials, hasIp, sshOk, text))
    /\ kcPc' = [kcPc EXCEPT ![c] = "idle"]
    /\ kcLocal' = [kcLocal EXCEPT ![c] = NoLocal]
    /\ UNCHANGED <<env, serviceVars, dbUp, adapterVars, vaultVars, clusters, nextId, postPc, response,
                   provPc, provLocal, desPc, desLocal, desResult>>

(***************************************************************************)
(* The adapters called directly: one call from its start to its end.       *)
(***************************************************************************)
AdapterDeploy(provider, nodeCount, key, sgOk, made) ==
    /\ uuids < MaxDeploys
    /\ made \subseteq 1..nodeCount
    /\ uuids' = uuids + 1
    /\ cloud' = cloud \cup DeployResources(provider, uuids + 1, nodeCount, key, sgOk, made)
    /\ lastCall' =
          IF DeploySucceeds(provider, nodeCount, made)
              THEN [op |-> "deploy", provider |-> provider, nodeCount |-> nodeCount,
                    outcome |-> "returned",
                    value |-> DeployResult(uuids + 1, provider, key, nodeCount)]
              ELSE [op |-> "deploy", provider |-> provider, nodeCount |-> nodeCount,
                    outcome |-> "threw", value |-> NoResult]
    /\ UNCHANGED <<env, serviceVars, dbUp, destroyCalls, vaultVars, orchVars>>

AdapterDestroy(provider, d, api) ==
    /\ d <= uuids
    /\ destroyCalls' = destroyCalls \cup {d}
    /\ cloud' = DestroyCloud(provider, d, api)
    /\ lastCall' = [op |-> "destroy", provider |-> provider, deploymentId |-> d,
                    api |-> api,
                    found |-> Cardinality(DestroyFound(provider, d)),
                    outcome |-> DestroyOutcome(provider, d, api).outcome,
                    value |-> DestroyOutcome(provider, d, api).value]
    /\ UNCHANGED <<env, serviceVars, dbUp, uuids, vaultVars, orchVars>>

\* `result` is what the caller passes: a ProvisioningResult deploy returned,
\* or the empty object of a row that has none.
AdapterKubeconfig(provider, creds, result, hasIp, sshOk, text) ==
    /\ lastCall' =
          [op |-> "adapter.getKubeconfig", provider |-> provider,
           result |-> result, hasIp |-> hasIp, sshOk |-> sshOk, input |-> text,
           hasKey |-> IF provider = "onprem"
                         THEN {"host", "user", "sshKey"} \subseteq creds.fields
                         ELSE result.success /\ result.details.keyMaterial # NoKey,
           answer |-> AdapterGetKubeconfig(provider, getProvider(provider, creds),
                          result, hasIp, sshOk, text)]
    /\ UNCHANGED <<env, serviceVars, dbUp, adapterVars, vaultVars, orchVars>>

(***************************************************************************)
(* Initial states and specifications.                                      *)
(***************************************************************************)
EnvChoices == {e \in SUBSET Providers : Cardinality(e) <= MaxEnv}

\* The clusters table outlives the process: besides the rows this run inserts
\* (ClusterIds) it holds a row of an earlier run, whose provisioning failed.
\* No request of this run names that row.
EarlierId == MaxClusters + 1

RowIds == ClusterIds \cup {EarlierId}

EarlierRow ==
    [provider        |-> "aws",
     status          |-> "error",
     config          |-> ErrorConfig("deploy"),
     organization_id |-> "orgA"]

NoCall == [op |-> "none"]

NoRun == [pc |-> "idle"]

\* The row initSchema seeds; its cloud columns are NULL.
DefaultOrganization ==
    [id |-> 0, name |-> <<"Default">>, slug |-> <<"default">>,
     cloud_provider |-> "null", cloud_account_id |-> <<>>,
     cloud_account_name |-> <<>>]

InitOrchestrator ==
    /\ lastCall = NoCall
    /\ deployRun = NoRun
    /\ probe = NoRun
    /\ organizations = {DefaultOrganization}
    /\ sessions = {}
    /\ logins = [l \in LoginIds |-> NoRun]
    /\ cloud = {}
    /\ uuids = 0
    /\ destroyCalls = {}
    /\ clusters = [c \in RowIds |-> IF c \in ClusterIds THEN NoRow ELSE EarlierRow]
    /\ nextId = 1
    /\ postPc = [c \in ClusterIds |-> "none"]
    /\ response = [c \in ClusterIds |-> NoRow]
    /\ provPc = [c \in ClusterIds |-> "idle"]
    /\ provLocal = [c \in ClusterIds |-> NoLocal]
    /\ desPc = [c \in ClusterIds |-> "idle"]
    /\ desLocal = [c \in ClusterIds |-> NoLocal]
    /\ desResult = [c \in ClusterIds |-> "none"]
    /\ kcPc = [c \in ClusterIds |-> "idle"]
    /\ kcLocal = [c \in ClusterIds |-> NoLocal]

\* The vault on its own: the process starts with an empty credentials table.
InitVault ==
    /\ env \in EnvChoices
    /\ dbUp = TRUE
    /\ credentials = {}
    /\ savePc = [s \in SaveIds |-> "idle"]
    /\ saveReq = [s \in SaveIds |-> NoReq]
    /\ InitOrchestrator

NextVault ==
    \/ \E s \in SaveIds, p \in ProviderInputs, n \in Secrets, o \in OrgInputs,
          name \in NameInputs, valid \in BOOLEAN, iv \in IVs :
             SaveValidate(s, p, n, o, name, valid, iv)
    \/ \E s \in SaveIds : SaveDelete(s)
    \/ \E s \in SaveIds : SaveInsert(s)
    \/ DbFail
    \/ DbRecover

SpecVault == InitVault /\ [][NextVault]_vars

\* A row as saveCredentials writes it.
SavedRow(provider, orgId, n, iv) ==
    NewRow([provider  |-> provider,
            orgId     |-> orgId,
            encrypted |-> encrypt(Serialize(SecretBag(provider, n)), iv),
            identity  |-> IdentityOf(provider, n),
            connName  |-> ConnectionName(provider, Undefined, IdentityOf(provider, n))])

\* The credential tables the orchestrator is run against: for one provider,
\* any set of tenants has saved a secret bag (tenant i saved secret i), which
\* SpecVault reaches by one successful save per tenant.
OrgSecret(orgId) == IF orgId = DEFAULT_ORG_ID THEN 1 ELSE MaxSecret

StoredTables ==
    {{SavedRow(p, o, OrgSecret(o), 0) : o \in S} : p \in Providers, S \in SUBSET Orgs}

Init ==
    /\ env \in EnvChoices
    /\ dbUp = TRUE
    /\ credentials \in StoredTables
    /\ savePc = [s \in SaveIds |-> "idle"]
    /\ saveReq = [s \in SaveIds |-> NoReq]
    /\ InitOrchestrator

Next ==
    \/ \E p \in ProviderInputs, isAdmin \in BOOLEAN, o \in OrgInputs, b \in OrgInputs :
          PostClustersInsert(p, isAdmin, o, b)
    \/ \E c \in ClusterIds : PostClustersTrigger(c)
    \/ \E c \in ClusterIds : ProvGetProvider(c)
    \/ \E c \in ClusterIds, key \in KeyInputs, made \in MadeInputs, iv \in IVs :
          ProvDeploy(c, key, TRUE, made, iv)
    \/ \E c \in ClusterIds : ProvWriteActive(c)
    \/ \E c \in ClusterIds : ProvWriteError(c)
    \/ \E c \in ClusterIds : DestroySelect(c)
    \/ \E c \in ClusterIds : DestroyDeleteOnly(c)
    \/ \E c \in ClusterIds : DestroyLoadCredentials(c)
    \/ \E c \in ClusterIds, api \in ApiOutcomes : DestroyRemote(c, api)
    \/ \E c \in ClusterIds : DestroyDelete(c)
    \/ \E c \in ClusterIds : KubeconfigSelect(c)
    \/ \E c \in ClusterIds : KubeconfigLoadCredentials(c)
    \/ \E c \in ClusterIds, hasIp \in BOOLEAN :
          KubeconfigProvider(c, hasIp, TRUE, K3sYaml)
    \/ DbFail
    \/ DbRecover

Spec == Init /\ [][Next]_vars

\* The vault's reads and deletes, run against any table saveCredentials can
\* have left: at most one row per (tenant, provider) pair.
SavedTables ==
    {{SavedRow(pair[1], pair[2], OrgSecret(pair[2]), 0) : pair \in S} :
        S \in SUBSET (Providers \X Orgs)}

InitResolve ==
    /\ env \in EnvChoices
    /\ dbUp = TRUE
    /\ credentials \in SavedTables
    /\ savePc = [s \in SaveIds |-> "idle"]
    /\ saveReq = [s \in SaveIds |-> NoReq]
    /\ InitOrchestrator

NextResolve ==
    \/ \E p \in ProviderInputs, o \in OrgInputs : LoadCredentialsCall(p, o)
    \/ \E p \in ProviderInputs, o \in OrgInputs : disconnect(p, o)
    \/ \E p \in ProviderInputs, o \in OrgInputs : GetStatusCall(p, o)
    \/ DbFail
    \/ DbRecover

SpecResolve == InitResolve /\ [][NextResolve]_vars

\* The adapters on their own, against a cloud that starts empty.
InitAdapter ==
    /\ env = {}
    /\ dbUp = TRUE
    /\ credentials = {}
    /\ savePc = [s \in SaveIds |-> "idle"]
    /\ saveReq = [s \in SaveIds |-> NoReq]
    /\ InitOrchestrator

AdapterCredentials == {NoCredentials} \cup {SecretBag(p, 1) : p \in Providers}

NextAdapter ==
    \/ \E p \in Providers, n \in NodeCounts, key \in {NoKey, Text(1)},
          sgOk \in BOOLEAN, made \in MadeInputs :
             AdapterDeploy(p, n, key, sgOk, made)
    \/ \E p \in Providers, d \in 0..MaxDeploys, api \in ApiOutcomes :
          AdapterDestroy(p, d, api)

SpecAdapter == InitAdapter /\ [][NextAdapter]_vars

\* getKubeconfig of each adapter, applied to the results deploy can return.
ResultInputs(provider) ==
    {NoResult} \cup {DeployResult(1, provider, key, n) : key \in KeyInputs, n \in NodeCounts}

NextKubeconfig ==
    \E p \in Providers, creds \in AdapterCredentials, hasIp \in BOOLEAN,
       sshOk \in BOOLEAN, text \in KubeconfigTexts :
          \E result \in ResultInputs(p) :
             AdapterKubeconfig(p, creds, result, hasIp, sshOk, text)

SpecKubeconfig == InitAdapter /\ [][NextKubeconfig]_vars

(***************************************************************************)
(* GCPProvider.deploy and AzureProvider.deploy step by step.  The map over *)
(* Array.from({length: nodeCount}) starts every node's creation before the *)
(* first await, so all calls are in flight at once; `await Promise.all`    *)
(* resumes deploy when every call has resolved, or as soon as one call     *)
(* rejects, and the catch block then throws.  A call that is still in      *)
(* flight at that moment goes on and settles later.  One deploy is         *)
(* followed at a time: the next one starts when no call is in flight.      *)
(***************************************************************************)
DeployProviders == {"gcp", "azure"}

InFlight(run) ==
    IF run.pc = "idle" THEN {} ELSE {i \in DOMAIN run.calls : run.calls[i] = "inflight"}

DeployStart(provider, nodeCount) ==
    /\ deployRun.pc \in {"idle", "returned", "threw"}
    /\ InFlight(deployRun) = {}
    /\ uuids < MaxDeploys
    /\ uuids' = uuids + 1
    /\ deployRun' = [pc |-> "awaiting", provider |-> provider,
                     deploymentId |-> uuids + 1,
                     calls |-> [i \in 1..nodeCount |-> "inflight"]]
    /\ cloud' = cloud \cup
          (IF provider = "azure"
              THEN {Resource("vnet", "azure", NoTag, uuids + 1, 0)} ELSE {})
    /\ UNCHANGED <<env, dbUp, lastCall, destroyCalls, probe, organizations, sessions,
                   logins, vaultVars, orchVars>>

\* What Promise.all does to the awaiting deploy when call i settles.
PromiseAll(run, calls) ==
    IF run.pc # "awaiting" THEN run.pc
    ELSE IF \E j \in DOMAIN calls : calls[j] = "failed" THEN "threw"
    ELSE IF \A j \in DOMAIN calls : calls[j] = "created" THEN "returned"
    ELSE "awaiting"

\* The resources node i's creation leaves: the instance when it succeeded;
\* for azure the public address and the interface in either case.
NodeResources(provider, d, i, ok) ==
    (IF ok THEN {Resource("instance", provider, d, d, i)} ELSE {})
    \cup (IF provider = "azure"
            THEN {Resource("public-ip", "azure", NoTag, d, i),
                  Resource("nic", "azure", NoTag, d, i)}
            ELSE {})

\* Node i's creation call settles: it resolves (ok) or rejects.
NodeSettle(i, ok) ==
    /\ i \in InFlight(deployRun)
    /\ LET calls == [deployRun.calls EXCEPT ![i] = IF ok THEN "created" ELSE "failed"]
       IN deployRun' = [deployRun EXCEPT !.calls = calls,
                                         !.pc = PromiseAll(deployRun, calls)]
    /\ cloud' = cloud \cup
          NodeResources(deployRun.provider, deployRun.deploymentId, i, ok)
    /\ UNCHANGED <<env, dbUp, lastCall, uuids, destroyCalls, probe, organizations,
                   sessions, logins, vaultVars, orchVars>>

NextDeploy ==
    \/ \E p \in DeployProviders, n \in NodeCounts : DeployStart(p, n)
    \/ \E i \in NodeCounts, ok \in BOOLEAN : NodeSettle(i, ok)

SpecDeploy == InitAdapter /\ [][NextDeploy]_vars

(***************************************************************************)
(* validators.validateOnPrem step by step: new NodeSSH(), await            *)
(* ssh.connect, await ssh.execCommand, ssh.dispose().  `session` is the    *)
(* state of the probe's shell session, `left` the number of sessions       *)
(* earlier probes returned without disposing.                              *)
(***************************************************************************)
Hosts == {"10.0.0.5", "node.local"}

Users == {"root", "ubuntu"}

ProbeStart(host, user) ==
    /\ probe.pc \in {"idle", "returned"}
    /\ (IF probe.pc = "idle" THEN 0 ELSE probe.n) < MaxProbes
    /\ probe' = [pc |-> "connect",
                 n |-> IF probe.pc = "idle" THEN 1 ELSE probe.n + 1,
                 host |-> host, user |-> user, session |-> "none",
                 left |-> IF probe.pc = "idle" THEN 0
                          ELSE probe.left + (IF probe.session = "open" THEN 1 ELSE 0),
                 answer |-> [valid |-> FALSE, error |-> "none"]]
    /\ UNCHANGED <<env, dbUp, lastCall, deployRun, organizations, sessions, logins,
                   adapterVars, vaultVars, orchVars>>

\* await ssh.connect(...): the session opens, or the call rejects (refused,
\* or no handshake within readyTimeout) and the catch block answers.
ProbeConnect(outcome) ==
    /\ probe.pc = "connect"
    /\ probe' = IF outcome = "ok"
                   THEN [probe EXCEPT !.pc = "exec", !.session = "open"]
                   ELSE [probe EXCEPT !.pc = "returned",
                            !.answer = [valid |-> FALSE, error |-> "SSH Connection Failed"]]
    /\ UNCHANGED <<env, dbUp, lastCall, deployRun, organizations, sessions, logins,
                   adapterVars, vaultVars, orchVars>>

\* await ssh.execCommand(...), then ssh.dispose() and the test of stdout;
\* when execCommand rejects, control goes to the catch block instead.
ProbeExec(outcome) ==
    /\ probe.pc = "exec"
    /\ probe' =
          CASE outcome = "ok" ->
                 [probe EXCEPT !.pc = "returned", !.session = "disposed",
                     !.answer = [valid |-> TRUE, error |-> "none"]]
            [] outcome = "unexpected" ->
                 [probe EXCEPT !.pc = "returned", !.session = "disposed",
                     !.answer = [valid |-> FALSE,
                                 error |-> "SSH connected but command execution failed"]]
            [] OTHER ->
                 [probe EXCEPT !.pc = "returned",
                     !.answer = [valid |-> FALSE, error |-> "SSH Connection Failed"]]
    /\ UNCHANGED <<env, dbUp, lastCall, deployRun, organizations, sessions, logins,
                   adapterVars, vaultVars, orchVars>>

NextProbe ==
    \/ \E host \in Hosts, user \in Users : ProbeStart(host, user)
    \/ \E outcome \in {"ok", "refused", "timeout"} : ProbeConnect(outcome)
    \/ \E outcome \in {"ok", "unexpected", "rejected"} : ProbeExec(outcome)

SpecProbe == InitAdapter /\ [][NextProbe]_vars

(***************************************************************************)
(* auth.ts: loginWithCloudCredentials step by step.  A string is the       *)
(* sequence of its pieces: runs of letters and digits, and the characters  *)
(* between them.  An Azure tenant id is <<its first 8 characters, the      *)
(* rest>>, so substring(0, 8) is Head.                                     *)
(***************************************************************************)
Separators == {"-", "_", ".", " "}

\* String.prototype.toLowerCase on one piece.
LowerPiece(piece) ==
    CASE piece = "AWS"   -> "aws"
      [] piece = "GCP"   -> "gcp"
      [] piece = "Azure" -> "azure"
      [] OTHER           -> piece

\* .replace(/[^a-z0-9]+/g, "-"): every run of other characters becomes one "-".
RECURSIVE Dashed(_)
Dashed(name) ==
    IF name = <<>> THEN <<>>
    ELSE LET piece == IF Head(name) \in Separators THEN "-" ELSE Head(name)
             rest  == Dashed(Tail(name))
         IN IF piece = "-" /\ rest # <<>> /\ Head(rest) = "-"
               THEN rest
               ELSE <<piece>> \o rest

\* .replace(/^-|-$/g, ""): one leading and one trailing "-" are dropped.
Trimmed(name) ==
    LET front == IF name # <<>> /\ Head(name) = "-" THEN Tail(name) ELSE name
    IN IF front # <<>> /\ front[Len(front)] = "-"
          THEN SubSeq(front, 1, Len(front) - 1)
          ELSE front

SlugOf(accountName) ==
    Trimmed(Dashed([i \in 1..Len(accountName) |-> LowerPiece(accountName[i])]))

AwsAccounts == {<<"111122223333">>, <<"444455556666">>}

\* The first account alias IAM may list for an account; <<>> when it has none
\* or ListAccountAliases is denied.  An alias belongs to one account.
AwsAliases(account) ==
    IF account = <<"111122223333">> THEN {<<>>, <<"gcp", "-", "shop">>}
                                    ELSE {<<>>, <<"default">>}

AzureTenants == {<<"0a1b2c3d", "-1111">>, <<"0a1b2c3d", "-2222">>, <<"9f8e7d6c", "-1111">>}

GcpProjects == {<<"shop">>, <<"lab", "-", "2">>}

validateAWSCredentials(account, alias) ==
    [provider |-> "aws", accountId |-> account, tenantId |-> <<>>, projectId |-> <<>>,
     accountName |-> IF alias # <<>> THEN alias ELSE <<"AWS", "-">> \o account]

validateAzureCredentials(tenant) ==
    [provider |-> "azure", accountId |-> <<>>, tenantId |-> tenant, projectId |-> <<>>,
     accountName |-> <<"Azure", "-", Head(tenant)>>]

validateGCPCredentials(project) ==
    [provider |-> "gcp", accountId |-> <<>>, tenantId |-> <<>>, projectId |-> project,
     accountName |-> <<"GCP", "-">> \o project]

\* What the cloud may answer for credentials of one provider.
Identities(provider) ==
    CASE provider = "aws" ->
           UNION {{validateAWSCredentials(a, alias) : alias \in AwsAliases(a)} :
                     a \in AwsAccounts}
      [] provider = "azure" -> {validateAzureCredentials(t) : t \in AzureTenants}
      [] provider = "gcp" -> {validateGCPCredentials(p) : p \in GcpProjects}
      [] OTHER -> {}

\* identity.accountId || identity.tenantId || identity.projectId
AccountIdOf(identity) ==
    IF identity.accountId # <<>> THEN identity.accountId
    ELSE IF identity.tenantId # <<>> THEN identity.tenantId
    ELSE identity.projectId

\* Rows of organizations with the given cloud identity.
OrganizationsOf(provider, accountId) ==
    {o \in organizations : o.cloud_provider = provider /\ o.cloud_account_id = accountId}

LoginThrown(l, error) ==
    logins' = [logins EXCEPT ![l] = [pc |-> "thrown", error |-> error]]

\* The call up to the end of its first await: the provider's validator
\* resolves to an identity or throws; any other provider is refused.
LoginValidate(l, provider, identity) ==
    /\ logins[l].pc = "idle"
    /\ IF provider \notin {"aws", "azure", "gcp"}
          THEN LoginThrown(l, "Invalid cloud provider")
          ELSE IF identity \in Identities(provider)
                  THEN logins' = [logins EXCEPT ![l] =
                                     [pc |-> "find", identity |-> identity]]
                  ELSE LoginThrown(l, "Invalid credentials")
    /\ UNCHANGED <<env, dbUp, lastCall, deployRun, probe, organizations, sessions,
                   adapterVars, vaultVars, orchVars>>

\* findOrCreateOrganization: the SELECT by cloud_provider and cloud_account_id.
LoginFind(l) ==
    /\ logins[l].pc = "find"
    /\ LET identity == logins[l].identity
           existing == OrganizationsOf(identity.provider, AccountIdOf(identity))
       IN IF ~dbUp
             THEN LoginThrown(l, "query failed")
             ELSE IF existing # {}
                     THEN logins' = [logins EXCEPT ![l] =
                                        [pc |-> "session", identity |-> identity,
                                         organization |-> (CHOOSE o \in existing : TRUE).id]]
                     ELSE logins' = [logins EXCEPT ![l].pc = "insert"]
    /\ UNCHANGED <<env, dbUp, lastCall, deployRun, probe, organizations, sessions,
                   adapterVars, vaultVars, orchVars>>

\* INSERT ... ON CONFLICT (slug) DO UPDATE ... RETURNING id: a row with the
\* slug is overwritten, no row with the slug means a new row; either way the
\* statement fails when another row already holds the cloud identity.
LoginInsert(l) ==
    /\ logins[l].pc = "insert"
    /\ LET identity  == logins[l].identity
           accountId == AccountIdOf(identity)
           slug      == SlugOf(identity.accountName)
           conflict  == {o \in organizations : o.slug = slug}
           taken     == OrganizationsOf(identity.provider, accountId) \ conflict
           row       == IF conflict = {}
                           THEN [id |-> Cardinality(organizations),
                                 name |-> identity.accountName, slug |-> slug,
                                 cloud_provider |-> identity.provider,
                                 cloud_account_id |-> accountId,
                                 cloud_account_name |-> identity.accountName]
                           ELSE [(CHOOSE o \in conflict : TRUE) EXCEPT
                                    !.cloud_provider = identity.provider,
                                    !.cloud_account_id = accountId,
                                    !.cloud_account_name = identity.accountName]
       IN IF ~dbUp \/ taken # {}
             THEN /\ LoginThrown(l, "query failed")
                  /\ UNCHANGED organizations
             ELSE /\ organizations' = (organizations \ conflict) \cup {row}
                  /\ logins' = [logins EXCEPT ![l] =
                                   [pc |-> "session", identity |-> identity,
                                    organization |-> row.id]]
    /\ UNCHANGED <<env, dbUp, lastCall, deployRun, probe, sessions,
                   adapterVars, vaultVars, orchVars>>

\* createSession: INSERT INTO user_sessions; the token is the call's own.
LoginSession(l) ==
    /\ logins[l].pc = "session"
    /\ IF ~dbUp
          THEN /\ LoginThrown(l, "query failed")
               /\ UNCHANGED sessions
          ELSE /\ sessions' = sessions \cup
                      {[session_token |-> l,
                        organization_id |-> logins[l].organization,
                        cloud_provider |-> logins[l].identity.provider,
                        cloud_account_id |-> AccountIdOf(logins[l].identity)]}
               /\ logins' = [logins EXCEPT ![l].pc = "returned"]
    /\ UNCHANGED <<env, dbUp, lastCall, deployRun, probe, organizations,
                   adapterVars, vaultVars, orchVars>>

\* The validator threw: the cloud refused the credentials.
Rejected == [provider |-> "none"]

NextAuth ==
    \/ \E l \in LoginIds, p \in Providers :
          \E identity \in Identities(p) \cup {Rejected} : LoginValidate(l, p, identity)
    \/ \E l \in LoginIds : LoginFind(l)
    \/ \E l \in LoginIds : LoginInsert(l)
    \/ \E l \in LoginIds : LoginSession(l)
    \/ DbFail
    \/ DbRecover

SpecAuth == InitAdapter /\ [][NextAuth]_vars

(***************************************************************************)
(* encryption.ts on its own: encrypt is called on one payload with fresh   *)
(* initialization vectors, and decrypt on the strings it returned.         *)
(* lastCall holds the payload, the strings made for it and what decrypt    *)
(* returned for each string it was given.                                  *)
(***************************************************************************)
Payloads == {Text(n) : n \in 0..(Modulus - 1)}

CipherIVs == 0..MaxCipherIV

\* encryption.encrypt(x) with crypto.randomBytes answering iv.
CipherEncrypt(x, iv) ==
    /\ lastCall' =
          IF lastCall.op = "encryption" /\ lastCall.x = x
              THEN [lastCall EXCEPT !.made = @ \cup {encrypt(x, iv)}]
              ELSE [op |-> "encryption", x |-> x,
                    made |-> {encrypt(x, iv)}, read |-> {}]
    /\ UNCHANGED <<env, serviceVars, dbUp, adapterVars, vaultVars, orchVars>>

\* encryption.decrypt(text) on a string encrypt returned.
CipherDecrypt(text) ==
    /\ lastCall.op = "encryption"
    /\ text \in lastCall.made
    /\ lastCall' = [lastCall EXCEPT
          !.read = @ \cup {[input |-> text, output |-> decrypt(text)]}]
    /\ UNCHANGED <<env, serviceVars, dbUp, adapterVars, vaultVars, orchVars>>

NextCipher ==
    \/ \E x \in Payloads, iv \in CipherIVs : CipherEncrypt(x, iv)
    \/ \E iv \in CipherIVs, ct \in 0..(Modulus - 1) : CipherDecrypt(Hex(iv, ct))

SpecCipher == InitAdapter /\ [][NextCipher]_vars

(***************************************************************************)
(* utils/validate-env.ts: envSchema.safeParse(process.env) and validateEnv. *)
(* A variable of process.env is a string, or Undefined when it is not set. *)
(***************************************************************************)
\* A JavaScript number: a value, or NaN.
Num(n) == [t |-> "number", v |-> n]

NaN == [t |-> "NaN"]

DEFAULT_PORT == 3333

NodeEnvs == {"development", "production", "test"}

\* Number(value), as z.coerce.number() applies it to the string.
ToNumber(value) ==
    CASE value = "4000" -> Num(4000)
      [] value = "8080" -> Num(8080)
      [] value = ""     -> Num(0)
      [] OTHER          -> NaN

\* new URL(value) succeeds, as z.string().url() tests.
IsUrl(value) == value \in {"http://localhost:3000", "https://clusters.example.com"}

EnvInputs ==
    [NODE_ENV     : NodeEnvs \cup {Undefined, "staging"},
     PORT         : {Undefined, "4000", "8080", "", "invalid-port"},
     DATABASE_URL : {Undefined, "", "postgres://localhost/test"},
     FRONTEND_URL : {Undefined, "http://localhost:3000",
                     "https://clusters.example.com", "localhost"}]

\* The variables safeParse reports an issue for.
EnvIssues(input) ==
    {k \in {"NODE_ENV"} : input.NODE_ENV # Undefined /\ input.NODE_ENV \notin NodeEnvs}
    \cup {k \in {"PORT"} : input.PORT # Undefined /\ ToNumber(input.PORT) = NaN}
    \cup {k \in {"DATABASE_URL"} : input.DATABASE_URL \in {Undefined, ""}}
    \cup {k \in {"FRONTEND_URL"} :
             input.FRONTEND_URL # Undefined /\ ~IsUrl(input.FRONTEND_URL)}

\* result.data of a successful safeParse: defaults filled in, PORT a number.
EnvData(input) ==
    [NODE_ENV     |-> IF input.NODE_ENV = Undefined THEN "development" ELSE input.NODE_ENV,
     PORT         |-> IF input.PORT = Undefined
                         THEN Num(DEFAULT_PORT) ELSE ToNumber(input.PORT),
     DATABASE_URL |-> input.DATABASE_URL,
     FRONTEND_URL |-> IF input.FRONTEND_URL = Undefined
                         THEN "http://localhost:3000" ELSE input.FRONTEND_URL]

\* Variant of validateEnv that hands back what it could parse when the schema
\* is violated.
validateEnvLenient(input) ==
    [outcome |-> "returned", logged |-> EnvIssues(input) # {}, code |-> 0,
     data |-> EnvData(input)]

\* validateEnv: result.data, or console.error and process.exit(1).
validateEnv(input) ==
    IF EnvIssues(input) # {}
        THEN [outcome |-> "exit", logged |-> TRUE, code |-> 1, data |-> NoKey]
        ELSE [outcome |-> "returned", logged |-> FALSE, code |-> 0,
              data |-> EnvData(input)]

ValidateEnvCall(input) ==
    /\ lastCall' = [op |-> "validateEnv", input |-> input, answer |-> validateEnv(input)]
    /\ UNCHANGED <<env, serviceVars, dbUp, adapterVars, vaultVars, orchVars>>

NextValidateEnv == \E input \in EnvInputs : ValidateEnvCall(input)

SpecValidateEnv == InitAdapter /\ [][NextValidateEnv]_vars

(***************************************************************************)
(* Properties.                                                             *)
(***************************************************************************)

\* C1: a cluster row is `pending` when it is created, and its status changes
\* at most once, from `pending` to `active` or `error`; no step of
\* provisionCluster, getKubeconfig or destroyCluster takes it from active to
\* error, from error to active, or back to pending.
C1_StatusMonotonic ==
    [][\A c \in ClusterIds :
          /\ (clusters[c] = NoRow /\ clusters'[c] # NoRow)
                => clusters'[c].status = "pending"
          /\ (clusters[c] # NoRow /\ clusters'[c] # NoRow
                /\ clusters'[c].status # clusters[c].status)
                => /\ clusters[c].status = "pending"
                   /\ clusters'[c].status \in {"active", "error"}]_vars

\* C1 witness: the success write was rejected and the row was then settled
\* as `error` by the catch block.
C1_Witness ==
    \E c \in ClusterIds :
        /\ clusters[c].status = "error"
        /\ provPc[c] = "done"
        /\ provLocal[c].err = "db"

\* C2: once provisionCluster has run to its end for a row that is still in
\* the store, the row has left `pending` for `active` or `error`.
C2_ProvisioningSettles ==
    \A c \in ClusterIds :
        (provPc[c] \in {"done", "rejected"} /\ clusters[c] # NoRow)
            => clusters[c].status \in {"active", "error"}

\* C3: every row inserted by POST /clusters has had provisionCluster started
\* for it once the handler has finished, whatever credential resolution did.
C3_ExactlyOneAttempt ==
    \A c \in ClusterIds :
        postPc[c] \in {"responded", "failed"} => provPc[c] # "idle"

\* C4: POST /clusters answers with the row still `pending`, and a row is
\* written out of `pending` only after the handler has sent its answer.
C4_CreateDoesNotBlock ==
    \A c \in ClusterIds :
        /\ postPc[c] = "responded" => response[c].status = "pending"
        /\ clusters[c].status \in {"active", "error"} => postPc[c] = "responded"

\* C4 witness: the row has become active after the answer was sent.
C4_Witness ==
    \E c \in ClusterIds :
        /\ clusters[c].status = "active"
        /\ postPc[c] = "responded"
        /\ response[c].status = "pending"

\* C5: a destroyCluster call on a row with a deployment identifier leaves no
\* row behind, whether it returned or its credential resolution failed.
C5_DestroyAlwaysClears ==
    \A c \in ClusterIds :
        desResult[c] \in {"returned", "credentialsFailed"} => clusters[c] = NoRow

\* resolve(provider, tenant) as the vault defines it (NotFound is `{}` to callers).
Resolve(provider, orgId) ==
    IF loadCredentials(provider, orgId) = Null
        THEN NoCredentials
        ELSE loadCredentials(provider, orgId)

\* C6: the adapter that getKubeconfig and destroyCluster build is given
\* exactly the credential set resolve(cluster.provider, cluster's tenant) yields.
C6_SameResolution ==
    \A c \in ClusterIds :
        /\ desPc[c] = "remote" =>
              getProvider(desLocal[c].cluster.provider, desLocal[c].credentials)
                = getProvider(desLocal[c].cluster.provider,
                     Resolve(desLocal[c].cluster.provider,
                             desLocal[c].cluster.organization_id))
        /\ kcPc[c] = "provider" =>
              getProvider(kcLocal[c].cluster.provider, kcLocal[c].credentials)
                = getProvider(kcLocal[c].cluster.provider,
                     Resolve(kcLocal[c].cluster.provider,
                             kcLocal[c].cluster.organization_id))

\* C7: the credential row an operation on a cluster decrypts belongs to the
\* tenant that owns the cluster.
C7_TenantIsolation ==
    \A c \in ClusterIds :
        /\ (desPc[c] = "remote" /\ desLocal[c].credRow # NoRow) =>
              desLocal[c].credRow.organization_id = desLocal[c].cluster.organization_id
        /\ (kcPc[c] = "provider" /\ kcLocal[c].credRow # NoRow) =>
              kcLocal[c].credRow.organization_id = kcLocal[c].cluster.organization_id

\* C8: a persisted cluster config whose provisioningResult.details carries
\* keyMaterial holds the cipher's output for some key, with isEncrypted = true.
C8_KeyMaterialEncrypted ==
    \A c \in ClusterIds :
        (clusters[c] # NoRow /\ clusters[c].config.provisioningResult.success
            /\ clusters[c].config.provisioningResult.details.keyMaterial # NoKey)
        => LET details == clusters[c].config.provisioningResult.details
           IN /\ IsCiphertext(details.keyMaterial)
              /\ details.isEncrypted
              /\ \E k \in Secrets, iv \in IVs :
                    details.keyMaterial = encrypt(Text(k), iv)

\* C8 witness: an active row whose stored result carries key material.
C8_Witness ==
    \E c \in ClusterIds :
        /\ clusters[c].status = "active"
        /\ clusters[c].config.provisioningResult.details.keyMaterial # NoKey

\* C9: the step in which a save is rejected (unknown provider, or the
\* validator answers valid = false) leaves the credentials table as it was.
C9_RejectedSaveWritesNothing ==
    [][(\E s \in SaveIds : savePc[s] # "rejected" /\ savePc'[s] = "rejected")
          => credentials' = credentials]_vars

\* C9 witness: a save has been rejected while the table holds a row.
C9_Witness ==
    \E s \in SaveIds : savePc[s] = "rejected" /\ credentials # {}

BagPaths(provider) ==
    FieldsOf(provider) \cup
        (IF provider = "gcp"
            THEN {"serviceAccountKey.client_email", "serviceAccountKey.private_key"}
            ELSE {})

\* The fields that authenticate: keys, secrets and the names they go with.
SensitivePaths(provider) ==
    BagPaths(provider) \ IdentityQuotes(provider)

PlaintextQuotes(row) == row.identity.quotes \cup row.connection_name.quotes

\* C11 (as stated): every row of the credentials table holds the secret bag
\* only as the cipher's output in encrypted_data, and no field of the bag
\* appears in a plaintext column of the row.
C11_NoBagFieldInPlaintext ==
    \A r \in credentials :
        /\ IsCiphertext(r.encrypted_data)
        /\ PlaintextQuotes(r) \cap BagPaths(r.provider) = {}

\* C11 (amended): every row holds the secret bag only as the cipher's output
\* in encrypted_data, and the plaintext columns quote no field of the bag
\* other than the identifying ones the validator puts into the identity
\* string (azure subscriptionId, gcp projectId and client_email, onprem host).
C11_StoredEncrypted ==
    \A r \in credentials :
        /\ IsCiphertext(r.encrypted_data)
        /\ \E n \in Secrets, iv \in IVs :
              r.encrypted_data = encrypt(Serialize(SecretBag(r.provider, n)), iv)
        /\ PlaintextQuotes(r) \cap SensitivePaths(r.provider) = {}
        /\ PlaintextQuotes(r) \subseteq IdentityQuotes(r.provider)

\* C11 witness: a saved azure row whose identity quotes the subscription id.
C11_Witness ==
    \E s \in SaveIds :
        /\ savePc[s] = "saved"
        /\ NewRow(saveReq[s]) \in credentials
        /\ saveReq[s].provider = "azure"
        /\ "subscriptionId" \in saveReq[s].identity.quotes

\* C12: a call of loadCredentials(provider, tenant) returns the operator-
\* injected set whenever the provider's environment fields are present,
\* whatever the table holds; otherwise, when the store answers, the bag that
\* was encrypted into the row of that (tenant, provider) pair; otherwise null,
\* returned as a value.  It throws only when the store rejects the query.
C12_Resolve ==
    [][(lastCall' # lastCall /\ lastCall'.op = "loadCredentials") =>
          LET call == lastCall'
              rows == {r \in credentials : r.provider = call.provider
                                           /\ r.organization_id = call.orgId}
          IN /\ call.outcome = "threw" <=> (call.provider \notin env /\ ~dbUp)
             /\ call.provider \in env =>
                   /\ call.value.src = "env"
                   /\ call.value.fields = FieldsOf(call.provider)
             /\ (call.provider \notin env /\ dbUp /\ rows # {}) =>
                   \E r \in rows, n \in Secrets, iv \in IVs :
                       /\ r.encrypted_data = encrypt(Serialize(SecretBag(call.provider, n)), iv)
                       /\ call.value = SecretBag(call.provider, n)
             /\ (call.provider \notin env /\ dbUp /\ rows = {}) =>
                   call.value = Null]_vars

\* C12 witness: the environment's set was returned although the tenant has a
\* stored row for the provider.
C12_Witness ==
    /\ lastCall.op = "loadCredentials"
    /\ lastCall.outcome = "returned"
    /\ lastCall.value.src = "env"
    /\ RowsOf(lastCall.provider, lastCall.orgId) # {}

\* C13: a call of disconnect(provider, tenant) fails with ImmutableSource and
\* changes nothing when the provider's credentials come from the environment;
\* otherwise, when it returns, the row of that (tenant, provider) pair is gone
\* and every other pair's row is as it was.
C13_Delete ==
    [][(lastCall' # lastCall /\ lastCall'.op = "disconnect") =>
          LET call == lastCall'
              pair(r) == r.provider = call.provider /\ r.organization_id = call.orgId
          IN /\ call.outcome = "ImmutableSource" <=> call.provider \in env
             /\ call.outcome = "ImmutableSource" =>
                   /\ credentials' = credentials
                   /\ UNCHANGED <<env, serviceVars, dbUp, adapterVars, vaultVars, orchVars>>
             /\ call.outcome = "returned" =>
                   /\ {r \in credentials' : pair(r)} = {}
                   /\ {r \in credentials' : ~pair(r)} = {r \in credentials : ~pair(r)}
             /\ call.outcome = "threw" => credentials' = credentials]_vars

\* C13 witness: a disconnect was refused with ImmutableSource while the
\* tenant's stored row for that provider is still in the table.
C13_Witness ==
    /\ lastCall.op = "disconnect"
    /\ lastCall.outcome = "ImmutableSource"
    /\ RowsOf(lastCall.provider, lastCall.orgId) # {}
    /\ \E r \in credentials : r.provider # lastCall.provider

\* C14: when adapter resolution or deploy has failed in provisionCluster and
\* the call has ended, the row (if it is still there) has status error and
\* its config is exactly {error: <the failure's message>}.
C14_ErrorWrite ==
    \A c \in ClusterIds :
        (provPc[c] \in {"done", "rejected"} /\ clusters[c] # NoRow
            /\ provLocal[c].err \in {"not supported", "deploy"})
        => /\ clusters[c].status = "error"
           /\ clusters[c].config = ErrorConfig(provLocal[c].err)

\* C15: when a deploy has failed after it created nodes tagged with its
\* deployment identifier, a destroyCluster of that cluster that has returned
\* has called the adapter's destroy with that identifier.
C15_DestroyAfterPartialFailure ==
    \A c \in ClusterIds :
        (desResult[c] = "returned" /\ clusters[c] = NoRow
            /\ provPc[c] = "done" /\ provLocal[c].err = "deploy"
            /\ \E r \in cloud : /\ r.kind = "instance"
                                 /\ r.by = provLocal[c].deploymentId
                                 /\ r.tag = provLocal[c].deploymentId)
        => provLocal[c].deploymentId \in destroyCalls

\* C16 (as stated): for every adapter, a deploy that asked for N nodes and
\* returned has success = true, a deployment identifier, and exactly N node
\* descriptors, all of that deployment.
C16_ExactlyNNodes ==
    (lastCall.op = "deploy" /\ lastCall.outcome = "returned")
    => /\ lastCall.value.success
       /\ lastCall.value.deploymentId # NoTag
       /\ Len(lastCall.value.nodes) = lastCall.nodeCount
       /\ \A i \in DOMAIN lastCall.value.nodes :
             lastCall.value.nodes[i].deployment = lastCall.value.deploymentId

\* C16 (amended): a deploy that asked for N nodes and returned has success =
\* true and a deployment identifier; for the aws, azure and gcp adapters it has
\* exactly N node descriptors, one per instance the call created under that
\* identifier; for the on-prem adapter it has exactly one descriptor, the
\* fixed host, whatever N is.
C16_NodeDescriptors ==
    [][(lastCall' # lastCall /\ lastCall'.op = "deploy"
            /\ lastCall'.outcome = "returned")
       => LET call == lastCall'
              nodes == call.value.nodes
          IN /\ call.value.success
             /\ call.value.deploymentId # NoTag
             /\ call.provider = "onprem" =>
                   /\ Len(nodes) = 1
                   /\ nodes[1].host = "static-host-1"
             /\ call.provider # "onprem" =>
                   /\ Len(nodes) = call.nodeCount
                   /\ \A i \in DOMAIN nodes :
                         /\ nodes[i].deployment = call.value.deploymentId
                         /\ \E r \in cloud' \ cloud :
                               /\ r.kind = "instance" /\ r.n = nodes[i].n
                               /\ r.tag = call.value.deploymentId
                   /\ \A i, j \in DOMAIN nodes : nodes[i].n = nodes[j].n => i = j]_vars

\* C16 witness: a gcp deploy of MaxNodes nodes has returned.
C16_Witness ==
    /\ lastCall.op = "deploy"
    /\ lastCall.outcome = "returned"
    /\ lastCall.provider = "gcp"
    /\ lastCall.nodeCount = MaxNodes
    /\ Len(lastCall.value.nodes) = MaxNodes

\* C17: for every adapter, destroy(deploymentId) called when nothing tagged
\* with that identifier remains (the cloud API answering) returns
\* {success: true, count: 0} and does not throw.
C17_DestroyIdempotent ==
    (lastCall.op = "destroy" /\ lastCall.deploymentId # NoTag
        /\ lastCall.found = 0 /\ lastCall.api = "ok")
    => /\ lastCall.outcome = "returned"
       /\ lastCall.value.success
       /\ "count" \in DOMAIN lastCall.value
       /\ lastCall.value.count = 0

\* C18: every resource a deploy call created carries that call's deployment
\* identifier as its tag; and a destroy(deploymentId) that returned success
\* leaves no resource that deploy created and deletes no resource of another
\* deployment.
C18_TaggedAndTornDown ==
    [][/\ \A r \in cloud' : r.tag = r.by
       /\ (lastCall' # lastCall /\ lastCall'.op = "destroy"
               /\ lastCall'.outcome = "returned" /\ lastCall'.value.success
               /\ lastCall'.deploymentId # NoTag)
          => /\ {r \in cloud' : r.by = lastCall'.deploymentId
                                 /\ r.provider = lastCall'.provider} = {}
             /\ {r \in cloud : r.by # lastCall'.deploymentId} \subseteq cloud']_vars

NeedsKey(provider) == provider \in {"aws", "onprem"}

\* C20: for every adapter, getKubeconfig of a deploy's result fails with
\* NodeNotReady when the node has no external address, with KeyMaterialMissing
\* when the adapter needs a private key it was not given, and otherwise (the
\* node being reachable) returns the node's file with every loopback address
\* replaced by the node's external address.
C20_KubeconfigOutcomes ==
    (lastCall.op = "adapter.getKubeconfig" /\ lastCall.result.success)
    => LET call == lastCall
           keyOk == ~NeedsKey(call.provider) \/ call.hasKey
           addressOk == call.provider = "onprem" \/ call.hasIp
       IN /\ ~addressOk => call.answer.message = "Instance has no Public IP yet"
          /\ (addressOk /\ ~keyOk) => call.answer.outcome = "threw"
          /\ (addressOk /\ keyOk /\ call.sshOk) =>
                /\ call.answer.outcome = "returned"
                /\ Len(call.answer.text) = Len(call.input)
                /\ \A i \in DOMAIN call.input :
                      call.answer.text[i] =
                          IF call.input[i] = Loopback THEN PublicIp ELSE call.input[i]

\* C21: a destroyCluster call that found no deployment identifier in the row
\* goes straight to the DELETE: it resolves no credentials and calls no
\* adapter, and its DELETE, when the store answers, removes that row,
\* leaves every other row as it was and the call returns true; when the
\* store rejects the DELETE the call throws and no row changes.
C21_DeleteOnly ==
    [][\A c \in ClusterIds :
          /\ (desPc[c] = "idle" /\ desPc'[c] # "idle"
                  /\ ~HasDeploymentId(clusters[c]))
             => desPc'[c] = "deleteOnly"
          /\ (desPc[c] = "deleteOnly" /\ desPc'[c] # "deleteOnly")
             => /\ desPc'[c] = "idle"
                /\ desLocal[c].credentials = NoCredentials
                /\ destroyCalls' = destroyCalls
                /\ cloud' = cloud
                /\ credentials' = credentials
                /\ \A r \in RowIds \ {c} : clusters'[r] = clusters[r]
                /\ IF dbUp
                      THEN clusters'[c] = NoRow /\ desResult'[c] = "returned"
                      ELSE clusters'[c] = clusters[c] /\ desResult'[c] # "returned"]_vars

\* C21 witness: a row whose provisioning was never started (the handler's
\* credential lookup failed) has been destroyed: the call returned, the row
\* is gone, the earlier row is still there and no adapter was called.
C21_Witness ==
    \E c \in ClusterIds :
        /\ postPc[c] = "failed"
        /\ provPc[c] = "idle"
        /\ desResult[c] = "returned"
        /\ clusters[c] = NoRow
        /\ clusters[EarlierId] = EarlierRow
        /\ destroyCalls = {}

\* C22: whatever initialization vector encrypt drew, decrypt returns the
\* payload for every string encrypt made of it, and two strings made of the
\* same payload with different initialization vectors are different strings.
C22_RoundTrip ==
    lastCall.op = "encryption"
    => /\ \A r \in lastCall.read : r.output = lastCall.x
       /\ \A text \in lastCall.made : decrypt(text) = lastCall.x
       /\ \A a, b \in lastCall.made : a.iv # b.iv => a # b /\ IsCiphertext(a)
       /\ \A iv \in CipherIVs : decrypt(encrypt(lastCall.x, iv)) = lastCall.x

\* C22 witness: one payload was encrypted with every initialization vector
\* and each of the strings has been decrypted.
C22_Witness ==
    /\ lastCall.op = "encryption"
    /\ {text.iv : text \in lastCall.made} = CipherIVs
    /\ {r.input : r \in lastCall.read} = lastCall.made

\* C23: when every variable satisfies the schema, validateEnv returns the
\* parsed environment with the defaults filled in and PORT coerced to a
\* number; when a variable violates the schema (NODE_ENV outside the enum,
\* PORT not a number, DATABASE_URL missing or empty, FRONTEND_URL not a URL)
\* it logs the error and exits with code 1, returning no configuration.
C23_ValidateEnv ==
    lastCall.op = "validateEnv"
    => LET input == lastCall.input
           answer == lastCall.answer
           violated ==
               \/ input.NODE_ENV \notin NodeEnvs \cup {Undefined}
               \/ input.PORT \in {"invalid-port"}
               \/ input.DATABASE_URL \in {Undefined, ""}
               \/ input.FRONTEND_URL \in {"localhost"}
       IN IF violated
             THEN /\ answer.outcome = "exit"
                  /\ answer.code = 1
                  /\ answer.logged
                  /\ answer.data = NoKey
             ELSE /\ answer.outcome = "returned"
                  /\ answer.data.PORT.t = "number"
                  /\ answer.data.PORT.v \in Nat
                  /\ input.PORT = Undefined => answer.data.PORT.v = DEFAULT_PORT
                  /\ input.PORT = "4000" => answer.data.PORT.v = 4000
                  /\ answer.data.NODE_ENV \in NodeEnvs
                  /\ input.NODE_ENV = Undefined => answer.data.NODE_ENV = "development"
                  /\ input.NODE_ENV # Undefined => answer.data.NODE_ENV = input.NODE_ENV
                  /\ answer.data.DATABASE_URL = input.DATABASE_URL
                  /\ IsUrl(answer.data.FRONTEND_URL)

\* C23 witness: the environment of the first test (PORT "4000", NODE_ENV
\* test) was validated and PORT came back as the number 4000.
C23_Witness ==
    /\ lastCall.op = "validateEnv"
    /\ lastCall.input.PORT = "4000"
    /\ lastCall.input.NODE_ENV = "test"
    /\ lastCall.answer.outcome = "returned"
    /\ lastCall.answer.data.PORT = Num(4000)

\* C24: a deploy issues all its node-creation calls at once, and it has
\* completed, by returning or by throwing, only when none of those calls is
\* still in flight.
C24_DeployWaitsForAll ==
    /\ deployRun.pc = "awaiting" =>
          \A i \in DOMAIN deployRun.calls : deployRun.calls[i] # "unissued"
    /\ deployRun.pc \in {"returned", "threw"} => InFlight(deployRun) = {}

\* C25: when validateOnPrem has returned, whatever the path, the shell
\* session it opened for the probe is no longer open.
C25_SessionDisposed ==
    probe.pc = "returned" => probe.session # "open"

\* C26: a row whose provisioning attempt was started with no credentials
\* (resolution returned nothing for its provider and tenant) is never
\* `active`, and once the attempt has run to its end the row's status is
\* `error`.
C26_NoCredentialsNoActive ==
    \A c \in ClusterIds :
        (provPc[c] # "idle" /\ provLocal[c].credentials = NoCredentials
            /\ clusters[c] # NoRow)
        => /\ clusters[c].status # "active"
           /\ provPc[c] = "done" => clusters[c].status = "error"

\* C27: the step in which a save fails after validation (its DELETE or its
\* INSERT is rejected) leaves in the table the row its (tenant, provider)
\* pair had when the save was called.
C27_FailedSaveKeepsPrior ==
    [][\A s \in SaveIds :
          (savePc[s] \in {"delete", "insert"} /\ savePc'[s] = "failed")
             => saveReq[s].prior \subseteq credentials']_vars

\* What loadCredentials answers in the current state: a credential set from
\* the environment ("env"), one from the tenant's row ("db"), or none (it
\* returned null, or its SELECT threw).
Resolution(provider, organizationId) ==
    IF hasEnvCredentials(provider) THEN "env"
    ELSE IF ~dbUp THEN "none"
    ELSE loadCredentials(provider, OrgOrDefault(organizationId)).src

StatusAgrees(call) ==
    LET resolved == Resolution(call.provider, call.organizationId)
    IN /\ call.answer.connected <=> resolved \in {"env", "db"}
       /\ call.answer.source = "env" <=> hasEnvCredentials(call.provider)
       /\ call.answer.source = "db" <=> resolved = "db"
       /\ call.answer.source = IF resolved = "null" THEN "none" ELSE resolved

StatusQuotes(answer) ==
    IF answer.connected
        THEN answer.identity.quotes \cup answer.connection_name.quotes
        ELSE {}

\* C28 (as stated): getStatus answers connected exactly when loadCredentials
\* returns a credential set in the same state, with source env exactly when
\* the environment holds the provider's credentials and db exactly when the
\* set comes from the tenant's row; and its answer quotes no field of the
\* secret bag.
C28_StatusAgreesNoBagField ==
    [][(lastCall' # lastCall /\ lastCall'.op = "getStatus")
          => /\ StatusAgrees(lastCall')
             /\ StatusQuotes(lastCall'.answer) \cap BagPaths(lastCall'.provider) = {}]_vars

\* C28 (amended): getStatus agrees with loadCredentials as above, and its
\* answer quotes no field of the secret bag other than the identifying ones
\* the stored identity string quotes (subscriptionId; projectId and
\* client_email; host): no key and no secret.
C28_StatusAgrees ==
    [][(lastCall' # lastCall /\ lastCall'.op = "getStatus")
          => /\ StatusAgrees(lastCall')
             /\ StatusQuotes(lastCall'.answer) \subseteq IdentityQuotes(lastCall'.provider)
             /\ StatusQuotes(lastCall'.answer) \cap SensitivePaths(lastCall'.provider) = {}
             /\ DOMAIN lastCall'.answer \subseteq
                   {"connected", "source", "identity", "connection_name",
                    "organization_id"}]_vars

\* C28 witness: getStatus reported a tenant's stored gcp credentials while
\* another tenant asking for the same provider would get nothing.
C28_Witness ==
    /\ lastCall.op = "getStatus"
    /\ lastCall.provider = "gcp"
    /\ lastCall.answer.connected
    /\ lastCall.answer.source = "db"
    /\ \E o \in Orgs : ~getStatus("gcp", o).connected

\* C29: a row that destroyCluster has deleted stays deleted: no later step
\* brings it back; the status write of a provisioning attempt whose row is
\* gone changes no row at all, and a status write changes no row but its own.
C29_DestroyedStaysDestroyed ==
    [][\A c \in ClusterIds :
          /\ (desResult[c] = "returned" /\ clusters[c] = NoRow)
                => clusters'[c] = NoRow
          /\ (provPc[c] \in {"writeActive", "writeError"} /\ provPc'[c] # provPc[c])
                => /\ clusters[c] = NoRow => clusters' = clusters
                   /\ \A r \in RowIds \ {c} : clusters'[r] = clusters[r]]_vars

\* C29 witness: destroyCluster found the row before its provisioning had
\* recorded anything, deleted it without a remote call, and the attempt,
\* whose deploy succeeded, has since run to its end: the row is gone and the
\* earlier row is as it was.
C29_Witness ==
    \E c \in ClusterIds :
        /\ desResult[c] = "returned"
        /\ clusters[c] = NoRow
        /\ provPc[c] = "done"
        /\ provLocal[c].result.success
        /\ provLocal[c].deploymentId \notin destroyCalls
        /\ clusters[EarlierId] = EarlierRow

\* C30: login maps cloud identities to organizations injectively: after
\* every step of any sequence of loginWithCloudCredentials calls, two
\* sessions whose (cloud provider, cloud account id) differ do not share an
\* organization id, and no step changes the cloud account an organization
\* that already has one is bound to.
C30_LoginInjective ==
    [][ /\ \A s1, s2 \in sessions' :
              s1.organization_id = s2.organization_id
                 => /\ s1.cloud_provider = s2.cloud_provider
                    /\ s1.cloud_account_id = s2.cloud_account_id
        /\ \A o \in organizations : \A n \in organizations' :
              (n.id = o.id /\ o.cloud_provider # "null")
                 => /\ n.cloud_provider = o.cloud_provider
                    /\ n.cloud_account_id = o.cloud_account_id ]_vars
====
